---- MODULE Spec2Model ----
(***************************************************************************)
(* A state-machine model of the r3d renderer: the frame bracket            *)
(* (R3D_Begin / R3D_Draw* / R3D_End), the draw-call bins, the pass         *)
(* sequence of R3D_End with its post-processing ping-pong, the light       *)
(* registry with its shadow maps and shadow update policy, the             *)
(* resolution-dependent framebuffers, the final blit and the environment.  *)
(*                                                                         *)
(* Abstractions.  Positions are integers on one axis, so the squared       *)
(* distance of Vector3DistanceSqr is (a - b)^2.  Times are integer         *)
(* milliseconds (frequencySec 0.016f is 16).  A material is its albedo     *)
(* colour alpha and its albedo texture (id, format carries alpha).  GL     *)
(* object names are positive integers, 0 is "no object".                   *)
(* The float parameters of the environment are integers in tenths.  The    *)
(* rounding of the final blit is computed on exact quotients.              *)
(***************************************************************************)
EXTENDS Integers, Sequences, FiniteSets, TLC

(* ------------------------------ bounds -------------------------------- *)

\* Draw submissions accepted over a run of the frame-bracket specification
\* (each gets a fresh record id).
MaxSubmit == 2

\* Draw submissions accepted over a run of the sorting specification.
MaxSorted == 3

\* Draw submissions over a run of the classification specification.
MaxClassified == 1

\* Draw submissions over a run of the pass-sequence specification.
MaxPassDraws == 2

\* Slots of the light registry (nextID never passes MaxLights + 1).
MaxLights == 2

\* Sub-meshes of the largest model given to R3D_DrawModelEx.
MaxMeshes == 2

\* The largest blur iteration count given to the iteration setters.
MaxIterations == 2

(* --------------------------- program constants ------------------------ *)

\* rlGetTextureIdDefault(): raylib's 1x1 white default texture.
TextureIdDefault == 1

\* R3D_CreateLight: light->shadow.updateConf.frequencySec = 0.016f.
DefaultFrequencyMs == 16

\* R3D_EnableShadow: if (resolution == 0) resolution = 1024.
DefaultShadowResolution == 1024

\* R3D_SHADER_FORWARD_NUM_LIGHTS, the size of uLights[] in the forward
\* program; the shader header names it R3D_SHADER_NUM_LIGHTS.
R3D_SHADER_FORWARD_NUM_LIGHTS == 8

(* ------------------------------- values ------------------------------- *)

BlendModes == {"OPAQUE", "ALPHA", "ADDITIVE", "MULTIPLY"}
RenderModes == {"AUTO_DETECT", "DEFERRED", "FORWARD"}
LightTypes == {"DIR", "SPOT", "OMNI"}
UpdateModes == {"MANUAL", "INTERVAL", "CONTINUOUS"}
BloomModes == {"DISABLED", "ADDITIVE"}
FogModes == {"DISABLED", "LINEAR"}
TonemapModes == {"LINEAR", "REINHARD"}
Flags == {"FXAA", "DEPTH_PREPASS"}

\* Albedo textures a material can carry: no texture (id 0, whatever its
\* format field holds), raylib's default texture (R8G8B8A8, so its format
\* has an alpha channel), an RGB texture and an RGBA texture.
Textures ==
    { [id |-> 0, alphaFormat |-> FALSE],
      [id |-> 0, alphaFormat |-> TRUE],
      [id |-> TextureIdDefault, alphaFormat |-> TRUE],
      [id |-> 2, alphaFormat |-> FALSE],
      [id |-> 3, alphaFormat |-> TRUE] }

Materials == [alpha : {128, 255}, texture : Textures]

DefaultMaterial == [alpha |-> 255, texture |-> [id |-> TextureIdDefault, alphaFormat |-> TRUE]]

VARIABLES
    flags,              \* R3D.state.flags
    env,                \* R3D.env (the fields that select passes)
    render,             \* R3D.state.render (mode, blendMode)
    camPos,             \* R3D.state.transform.position
    aDrawDeferred,      \* R3D.container.aDrawDeferred
    aDrawForward,       \* R3D.container.aDrawForward
    aDrawDeferredInst,  \* R3D.container.aDrawDeferredInst
    aDrawForwardInst,   \* R3D.container.aDrawForwardInst
    rLights,            \* R3D.container.rLights
    aLightBatch,        \* R3D.container.aLightBatch
    glShadowMaps,       \* names of the live shadow-map framebuffers
    post,               \* R3D.framebuffer.post (targetTexIdx, attachment 0)
    stateResolution,    \* R3D.state.resolution (width, height)
    framebuffer,        \* R3D.framebuffer: name and size of each framebuffer
    glFramebuffers,     \* the live framebuffer objects the loaders created
    shader,             \* R3D.shader: the id of each program (0: not loaded)
    texture,            \* R3D.texture: the id of each default texture
    glObjects,          \* the live programs and textures, and a bad release
    uLights,            \* uLights[i].enabled of the forward program
    glDepthMask,        \* the depth write mask of the GL context
    frame,              \* history: the bracket and its accepted submissions
    trace               \* history: what the last R3D_End executed

vars == << flags, env, render, camPos, aDrawDeferred, aDrawForward,
           aDrawDeferredInst, aDrawForwardInst, rLights, aLightBatch,
           glShadowMaps, post, stateResolution, framebuffer, glFramebuffers,
           shader, texture, glObjects, uLights, glDepthMask, frame, trace >>

deviceVars == << stateResolution, framebuffer, glFramebuffers >>
programVars == << shader, texture, glObjects >>
gpuVars == << programVars, uLights, glDepthMask >>
binVars == << aDrawDeferred, aDrawForward, aDrawDeferredInst, aDrawForwardInst >>
lightVars == << rLights, glShadowMaps >>

(* ------------------------------ helpers ------------------------------- *)

\* The trace when the last operation was not an R3D_End.
NoTrace ==
    [ valid |-> FALSE, passes |-> << >>, postLog |-> << >>, blit |-> 0,
      blitDst |-> [id |-> 0, target |-> [width |-> 0, height |-> 0],
                   x |-> 0, y |-> 0, width |-> 0, height |-> 0],
      glBlit |-> << >>, gl |-> << >>,
      gbuffer |-> << >>, prepass |-> << >>, forward |-> << >>, shadows |-> << >>,
      pending |-> {}, shadowOn |-> {}, uses |-> << >>, depthMasks |-> << >>,
      sent |-> << >>,
      ssao |-> [source |-> "", written |-> << >>, log |-> << >>, sampled |-> ""],
      bloom |-> [source |-> "", written |-> << >>, log |-> << >>, sampled |-> ""] ]

Range(s) == { s[i] : i \in 1..Len(s) }

Ids(s) == { s[i].id : i \in 1..Len(s) }

Min(S) == CHOOSE x \in S : \A y \in S : x <= y

\* Vector3DistanceSqr on the one modelled axis.
Vector3DistanceSqr(a, b) == (a - b) * (a - b)

(* ----------------------- render-path classification ------------------- *)

\* r3d_render_auto_detect_mode, with a missing "!defaultTex" guard.
AutoDetectIgnoresDefaultTex(blendMode, material) ==
    IF blendMode = "OPAQUE" THEN "DEFERRED"
    ELSE IF blendMode # "ALPHA" THEN "FORWARD"
    ELSE IF material.alpha < 255 \/ material.texture.alphaFormat THEN "FORWARD"
    ELSE "DEFERRED"

\* r3d_render_auto_detect_mode(material), reading R3D.state.render.blendMode.
r3d_render_auto_detect_mode(blendMode, material) ==
    IF blendMode = "OPAQUE" THEN "DEFERRED"
    ELSE IF blendMode # "ALPHA" THEN "FORWARD"
    ELSE LET texId == material.texture.id
             defaultTex == (texId = 0 \/ texId = TextureIdDefault)
             alphaColor == material.alpha < 255
             alphaFormat == IF ~defaultTex THEN material.texture.alphaFormat ELSE FALSE
         IN  IF (alphaColor \/ alphaFormat) /\ blendMode = "ALPHA"
             THEN "FORWARD"
             ELSE "DEFERRED"

\* The record a submission builds: drawCall = { 0 }, then the fields set
\* before the push; forward.blendMode is written on the forward path only.
DrawCall(id, geometryType, material, pos, mode, instanceCount) ==
    [ id |-> id,
      geometryType |-> geometryType,
      material |-> material,
      pos |-> pos,
      blendMode |-> IF mode = "FORWARD" THEN render.blendMode ELSE "UNSET",
      count |-> instanceCount ]

\* The render path of a submission: the override, else auto-detection.
SubmitMode(material) ==
    IF render.mode = "AUTO_DETECT"
    THEN r3d_render_auto_detect_mode(render.blendMode, material)
    ELSE render.mode

\* The push of R3D_DrawMesh on a pair of bins b = [deferred, forward].
PushMesh(b, id, geometryType, material, pos) ==
    LET mode == SubmitMode(material)
        call == DrawCall(id, geometryType, material, pos, mode, 0)
    IN  IF mode = "FORWARD"
        THEN [b EXCEPT !.forward = Append(@, call)]
        ELSE [b EXCEPT !.deferred = Append(@, call)]

\* The loop of R3D_DrawModelEx: one R3D_DrawMesh per sub-mesh, in order.
RECURSIVE PushModel(_, _, _, _)
PushModel(b, id, materials, pos) ==
    IF materials = << >> THEN b
    ELSE PushModel(PushMesh(b, id, "MESH", Head(materials), pos),
                   id + 1, Tail(materials), pos)

Accept(n) ==
    frame' = [frame EXCEPT !.nextCall = @ + n,
                           !.accepted = @ \cup (frame.nextCall .. frame.nextCall + n - 1)]

(* ------------------------------ frame begin --------------------------- *)

\* R3D_Begin that forgets to clear the forward bin.
BeginKeepsForward(position) ==
    /\ aDrawDeferred' = << >>
    /\ aDrawDeferredInst' = << >>
    /\ aDrawForwardInst' = << >>
    /\ camPos' = position
    /\ frame' = [frame EXCEPT !.began = TRUE, !.accepted = {}]
    /\ trace' = NoTrace
    /\ UNCHANGED << deviceVars, gpuVars, aDrawForward, flags, env, render, rLights, aLightBatch,
                    glShadowMaps, post >>

R3D_Begin(position) ==
    /\ aDrawForward' = << >>
    /\ aDrawDeferred' = << >>
    /\ aDrawForwardInst' = << >>
    /\ aDrawDeferredInst' = << >>
    /\ camPos' = position
    /\ frame' = [frame EXCEPT !.began = TRUE, !.accepted = {}]
    /\ trace' = NoTrace
    /\ UNCHANGED << deviceVars, gpuVars, flags, env, render, rLights, aLightBatch, glShadowMaps, post >>

(* ------------------------------ submissions --------------------------- *)

R3D_ApplyRenderMode(mode) ==
    /\ render' = [render EXCEPT !.mode = mode]
    /\ trace' = NoTrace
    /\ UNCHANGED << deviceVars, gpuVars, flags, env, camPos, binVars, rLights, aLightBatch,
                    glShadowMaps, post, frame >>

R3D_ApplyBlendMode(mode) ==
    /\ render' = [render EXCEPT !.blendMode = mode]
    /\ trace' = NoTrace
    /\ UNCHANGED << deviceVars, gpuVars, flags, env, camPos, binVars, rLights, aLightBatch,
                    glShadowMaps, post, frame >>

R3D_DrawMesh(material, pos) ==
    /\ LET b == PushMesh([deferred |-> aDrawDeferred, forward |-> aDrawForward],
                         frame.nextCall, "MESH", material, pos)
       IN  /\ aDrawDeferred' = b.deferred
           /\ aDrawForward' = b.forward
    /\ Accept(1)
    /\ trace' = NoTrace
    /\ UNCHANGED << deviceVars, gpuVars, flags, env, render, camPos, aDrawDeferredInst,
                    aDrawForwardInst, rLights, aLightBatch, glShadowMaps, post >>

\* R3D_DrawSpritePro: the same push as R3D_DrawMesh with a sprite geometry.
R3D_DrawSpritePro(material, pos) ==
    /\ LET b == PushMesh([deferred |-> aDrawDeferred, forward |-> aDrawForward],
                         frame.nextCall, "SPRITE", material, pos)
       IN  /\ aDrawDeferred' = b.deferred
           /\ aDrawForward' = b.forward
    /\ Accept(1)
    /\ trace' = NoTrace
    /\ UNCHANGED << deviceVars, gpuVars, flags, env, render, camPos, aDrawDeferredInst,
                    aDrawForwardInst, rLights, aLightBatch, glShadowMaps, post >>

\* R3D_DrawMeshInstancedPro (R3D_DrawMeshInstanced and ...Ex forward to it).
\* hasTransforms is "instanceTransforms != NULL".
R3D_DrawMeshInstancedPro(material, pos, hasTransforms, instanceCount) ==
    /\ IF instanceCount = 0 \/ ~hasTransforms
       THEN UNCHANGED << aDrawDeferredInst, aDrawForwardInst, frame >>
       ELSE LET mode == SubmitMode(material)
                call == DrawCall(frame.nextCall, "MESH", material, pos, mode,
                                 instanceCount)
            IN  /\ IF mode = "FORWARD"
                   THEN /\ aDrawForwardInst' = Append(aDrawForwardInst, call)
                        /\ UNCHANGED aDrawDeferredInst
                   ELSE /\ aDrawDeferredInst' = Append(aDrawDeferredInst, call)
                        /\ UNCHANGED aDrawForwardInst
                /\ Accept(1)
    /\ trace' = NoTrace
    /\ UNCHANGED << deviceVars, gpuVars, flags, env, render, camPos, aDrawDeferred, aDrawForward,
                    rLights, aLightBatch, glShadowMaps, post >>

\* R3D_DrawModelEx (R3D_DrawModel forwards to it): materials[i] is the
\* material of sub-mesh i, Len(materials) is model.meshCount.
R3D_DrawModelEx(materials, pos) ==
    /\ LET b == PushModel([deferred |-> aDrawDeferred, forward |-> aDrawForward],
                          frame.nextCall, materials, pos)
       IN  /\ aDrawDeferred' = b.deferred
           /\ aDrawForward' = b.forward
    /\ Accept(Len(materials))
    /\ trace' = NoTrace
    /\ UNCHANGED << deviceVars, gpuVars, flags, env, render, camPos, aDrawDeferredInst,
                    aDrawForwardInst, rLights, aLightBatch, glShadowMaps, post >>

(* ---------------------------- light registry -------------------------- *)

\* The null pointer, as a value comparable with a light record.
NULL == [type |-> "NULL"]

\* Handles a caller can pass: 0 and MaxLights + 1 are never issued.
Handles == 0 .. MaxLights + 1

\* r3d_light_init followed by the defaults R3D_CreateLight writes.
NewLight(type) ==
    [ type |-> type,
      enabled |-> FALSE,
      position |-> 0,
      range |-> 100,
      shadow |-> [ enabled |-> FALSE,
                   map |-> [id |-> 0, resolution |-> 0],
                   updateConf |-> [ mode |-> "INTERVAL",
                                    frequencyMs |-> DefaultFrequencyMs,
                                    timerMs |-> 0,
                                    shoudlUpdate |-> TRUE ] ] ]

\* The history kept beside a light: why its should-update flag is set
\* ("create", "update", "activate", or the update mode under which the
\* per-frame policy set it),
\* the frame time accumulated since its last shadow render (-1: no
\* undisturbed run of frames since that render), and the frames and shadow
\* renders of the current undisturbed run of 16 ms frames (frames -1: none),
\* and whether the shadow pass has drawn into the light's current shadow map
\* since r3d_light_create_shadow_map made it (drawn).
NewHist == [ why |-> {"create"}, acc |-> -1, frames |-> 0, renders |-> 0,
             drawn |-> FALSE ]

\* A light operation other than a frame ends the undisturbed run.
Disturb(h) == [h EXCEPT !.acc = -1, !.frames = 0, !.renders = 0]

r3d_registry_is_valid(reg, id) ==
    /\ id \in 1 .. reg.nextID - 1
    /\ id \in reg.valid

r3d_registry_get(reg, id) ==
    IF r3d_registry_is_valid(reg, id) THEN reg.elements[id] ELSE NULL

r3d_registry_get_allocated_count(reg) == reg.nextID - 1

\* The ids r3d_registry_add may return: a freed slot when there is one,
\* else the next fresh slot.
r3d_registry_add_ids(reg) ==
    IF reg.free # {} THEN reg.free
    ELSE IF reg.nextID <= MaxLights THEN {reg.nextID} ELSE {}

r3d_registry_add(reg, id) ==
    [ reg EXCEPT !.valid = @ \cup {id},
                 !.free = @ \ {id},
                 !.nextID = IF id = @ THEN @ + 1 ELSE @ ]

r3d_registry_remove(reg, id) ==
    IF r3d_registry_is_valid(reg, id)
    THEN [reg EXCEPT !.valid = @ \ {id}, !.free = @ \cup {id}]
    ELSE reg

\* The check of r3d_get_and_check_light: a usable light, or the early return.
LightOk(id) == r3d_registry_get(rLights, id) # NULL

Light(id) == rLights.elements[id]

LiveLights == { id \in 1 .. MaxLights : r3d_registry_is_valid(rLights, id) }

SetLight(id, light) == rLights' = [rLights EXCEPT !.elements[id] = light]

SetHist(id, h) == frame' = [frame EXCEPT !.hist[id] = h]

(* ----------------------------- shadow maps ---------------------------- *)

\* glGenFramebuffers: the lowest name not in use.
GenFramebuffer(live) == Min({ n \in 1 .. Cardinality(live) + 1 : n \notin live })

\* r3d_light_create_shadow_map: a framebuffer of the given resolution.
r3d_light_create_shadow_map(live, resolution) ==
    [id |-> GenFramebuffer(live \cup { o.id : o \in glFramebuffers }),
     resolution |-> resolution]

\* r3d_light_destroy_shadow_map: the live names after the unload.
r3d_light_destroy_shadow_map(live, light) ==
    IF light.shadow.map.id # 0 THEN live \ {light.shadow.map.id} ELSE live

(* ----------------------------- framebuffers --------------------------- *)

\* C division of an int by a positive int: the quotient truncated toward 0.
CDiv(a, b) == IF a >= 0 THEN a \div b ELSE -((-a) \div b)

\* A framebuffer field after memset(.., 0, ..).
NoFramebuffer == [id |-> 0, width |-> 0, height |-> 0]

\* The names of the renderer's live framebuffer objects.
FramebufferNames == { o.id : o \in glFramebuffers }

\* The body the loaders share, on st = [fb, objs] (R3D.framebuffer and the
\* live objects): rlLoadFramebuffer names a new object, the textures
\* attached to it have the given size.
LoadFramebuffer(st, field, width, height) ==
    LET o == [id |-> GenFramebuffer({ x.id : x \in st.objs } \cup glShadowMaps),
              width |-> width, height |-> height]
    IN  [fb |-> [st.fb EXCEPT ![field] = o], objs |-> st.objs \cup {o}]

\* The body the unloaders share: rlUnloadFramebuffer, then memset to zero.
UnloadFramebuffer(st, field) ==
    [fb |-> [st.fb EXCEPT ![field] = NoFramebuffer],
     objs |-> { o \in st.objs : o.id # st.fb[field].id }]

\* r3d_framebuffers_load under the environment e: the loaders of the five
\* full-size framebuffers, then those of the two ping-pong framebuffers,
\* which halve both sizes (width /= 2, height /= 2).
r3d_framebuffers_load(st, e, width, height) ==
    LET s1 == LoadFramebuffer(st, "gBuffer", width, height)
        s2 == LoadFramebuffer(s1, "litEnv", width, height)
        s3 == LoadFramebuffer(s2, "litObj", width, height)
        s4 == LoadFramebuffer(s3, "scene", width, height)
        s5 == LoadFramebuffer(s4, "post", width, height)
        s6 == IF e.ssaoEnabled
              THEN LoadFramebuffer(s5, "pingPongSSAO", CDiv(width, 2), CDiv(height, 2))
              ELSE s5
    IN  IF e.bloomMode # "DISABLED"
        THEN LoadFramebuffer(s6, "pingPongBloom", CDiv(width, 2), CDiv(height, 2))
        ELSE s6

\* r3d_framebuffers_unload that leaves the two ping-pong framebuffers.
FramebuffersUnloadKeepsPingPong(st) ==
    UnloadFramebuffer(
        UnloadFramebuffer(
            UnloadFramebuffer(
                UnloadFramebuffer(UnloadFramebuffer(st, "gBuffer"), "litEnv"),
                "litObj"),
            "scene"),
        "post")

r3d_framebuffers_unload(st) ==
    LET s5 == UnloadFramebuffer(
                  UnloadFramebuffer(
                      UnloadFramebuffer(
                          UnloadFramebuffer(UnloadFramebuffer(st, "gBuffer"), "litEnv"),
                          "litObj"),
                      "scene"),
                  "post")
        s6 == IF s5.fb.pingPongSSAO.id # 0
              THEN UnloadFramebuffer(s5, "pingPongSSAO") ELSE s5
    IN  IF s6.fb.pingPongBloom.id # 0
        THEN UnloadFramebuffer(s6, "pingPongBloom") ELSE s6

(* ------------------------- shaders and textures ----------------------- *)

\* The programs r3d_shaders_load loads in every case, in its order.
ShadersAlways ==
    << "generate.gaussianBlurDualPass", "generate.cubemapFromEquirectangular",
       "generate.irradianceConvolution", "generate.prefilter",
       "raster.geometry", "raster.geometryInst", "raster.forward",
       "raster.forwardInst", "raster.skybox", "raster.depth", "raster.depthInst",
       "raster.depthCube", "raster.depthCubeInst",
       "screen.ibl", "screen.lighting", "screen.scene", "screen.tonemap",
       "screen.adjustment", "screen.color" >>

\* The programs r3d_shaders_unload releases in every case, in its order.
ShadersUnloaded ==
    << "generate.gaussianBlurDualPass", "generate.cubemapFromEquirectangular",
       "generate.irradianceConvolution", "generate.prefilter",
       "raster.geometry", "raster.geometryInst", "raster.forward",
       "raster.forwardInst", "raster.skybox", "raster.depth", "raster.depthInst",
       "raster.depthCube", "raster.depthCubeInst",
       "screen.lighting", "screen.tonemap", "screen.adjustment", "screen.color" >>

\* The programs of the optional passes, loaded and released on a condition.
ShadersOptional == << "screen.ssao", "screen.bloom", "screen.fog", "screen.fxaa" >>

\* The textures r3d_textures_load loads in every case.
TexturesAlways == << "white", "black", "normal", "randNoise", "iblBrdfLut" >>

\* R3D.shader and R3D.texture of a zero-initialised R3D, with no live object.
NoPrograms ==
    [ shader |-> [n \in Range(ShadersAlways) \cup Range(ShadersOptional) |-> 0],
      texture |-> [n \in Range(TexturesAlways) \cup {"ssaoKernel"} |-> 0],
      gl |-> [programs |-> {}, textures |-> {}, bad |-> FALSE] ]

\* r3d_shader_load_*: rlLoadShaderCode names a new program, stored in the
\* field; st = [shader, texture, gl].
r3d_shader_load(st, name) ==
    LET id == GenFramebuffer(st.gl.programs)
    IN  [st EXCEPT !.shader[name] = id, !.gl.programs = @ \cup {id}]

\* rlUnloadShaderProgram(id); the release of a name that is not a live
\* program is recorded.  The field keeps the id.
rlUnloadShaderProgram(st, name) ==
    LET id == st.shader[name]
    IN  [st EXCEPT !.gl.programs = @ \ {id},
                   !.gl.bad = @ \/ id \notin st.gl.programs]

\* r3d_texture_load_*: a new texture, stored in the field.
r3d_texture_load(st, name) ==
    LET id == GenFramebuffer(st.gl.textures)
    IN  [st EXCEPT !.texture[name] = id, !.gl.textures = @ \cup {id}]

\* rlUnloadTexture(id) of a default texture.
rlUnloadTexture(st, name) ==
    LET id == st.texture[name]
    IN  [st EXCEPT !.gl.textures = @ \ {id},
                   !.gl.bad = @ \/ id \notin st.gl.textures]

\* The call op(name) for each name of a sequence, in order.
RECURSIVE Each(_, _, _)
Each(op, st, names) ==
    IF names = << >> THEN st
    ELSE LET next == CASE op = "r3d_shader_load" -> r3d_shader_load(st, Head(names))
                       [] op = "rlUnloadShaderProgram" ->
                             rlUnloadShaderProgram(st, Head(names))
                       [] op = "r3d_texture_load" -> r3d_texture_load(st, Head(names))
                       [] op = "rlUnloadTexture" -> rlUnloadTexture(st, Head(names))
         IN  Each(op, next, Tail(names))

\* r3d_textures_load under the environment e.
r3d_textures_load(st, e) ==
    LET s1 == Each("r3d_texture_load", st, TexturesAlways)
    IN  IF e.ssaoEnabled THEN r3d_texture_load(s1, "ssaoKernel") ELSE s1

r3d_textures_unload(st) ==
    LET s1 == Each("rlUnloadTexture", st, TexturesAlways)
    IN  IF s1.texture["ssaoKernel"] # 0 THEN rlUnloadTexture(s1, "ssaoKernel") ELSE s1

\* r3d_shaders_load under the environment e and the flags fl.
r3d_shaders_load(st, e, fl) ==
    LET s1 == Each("r3d_shader_load", st, ShadersAlways)
        s2 == IF e.ssaoEnabled THEN r3d_shader_load(s1, "screen.ssao") ELSE s1
        s3 == IF e.bloomMode # "DISABLED" THEN r3d_shader_load(s2, "screen.bloom") ELSE s2
        s4 == IF e.fogMode # "DISABLED" THEN r3d_shader_load(s3, "screen.fog") ELSE s3
    IN  IF "FXAA" \in fl THEN r3d_shader_load(s4, "screen.fxaa") ELSE s4

\* The programs of the optional passes that are loaded, in release order.
LoadedOptional(st) == SelectSeq(ShadersOptional, LAMBDA n : st.shader[n] # 0)

r3d_shaders_unload(st) ==
    Each("rlUnloadShaderProgram",
         Each("rlUnloadShaderProgram", st, ShadersUnloaded),
         LoadedOptional(st))

deviceRest == << flags, env, render, camPos, binVars, rLights, aLightBatch,
                 glShadowMaps, gpuVars, frame >>

R3D_GetResolution == stateResolution

R3D_UpdateResolution(width, height) ==
    /\ IF width <= 0 \/ height <= 0
       THEN UNCHANGED << deviceVars, post >>
       ELSE IF width = stateResolution.width /\ height = stateResolution.height
       THEN UNCHANGED << deviceVars, post >>
       ELSE LET st == r3d_framebuffers_load(
                          r3d_framebuffers_unload(
                              [fb |-> framebuffer, objs |-> glFramebuffers]),
                          env, width, height)
            IN  /\ framebuffer' = st.fb
                /\ glFramebuffers' = st.objs
                /\ post' = [targetTexIdx |-> 0, attached |-> 0]
                /\ stateResolution' = [width |-> width, height |-> height]
    /\ trace' = NoTrace
    /\ UNCHANGED deviceRest

\* R3D_SetRenderTarget; NoFramebuffer stands for a NULL target.
R3D_SetRenderTarget(target) ==
    /\ framebuffer' = [framebuffer EXCEPT !.customTarget = target]
    /\ trace' = NoTrace
    /\ UNCHANGED << stateResolution, glFramebuffers, post, deviceRest >>

(* --------------------------- light operations ------------------------- *)

frameRest == << flags, env, render, camPos, binVars, aLightBatch, post, deviceVars,
               gpuVars >>

R3D_CreateLight(type) ==
    /\ \E id \in r3d_registry_add_ids(rLights) :
          /\ rLights' = [r3d_registry_add(rLights, id) EXCEPT
                            !.elements[id] = NewLight(type)]
          /\ frame' = [frame EXCEPT !.hist[id] = NewHist]
    /\ trace' = NoTrace
    /\ UNCHANGED << glShadowMaps, frameRest >>

\* R3D_DestroyLight without the release of the light's shadow map.
DestroyLightKeepsMap(id) ==
    /\ IF ~LightOk(id)
       THEN UNCHANGED << rLights, frame >>
       ELSE /\ rLights' = r3d_registry_remove(rLights, id)
            /\ frame' = [frame EXCEPT !.destroyed = @ \cup {id}]
    /\ trace' = NoTrace
    /\ UNCHANGED << glShadowMaps, frameRest >>

R3D_DestroyLight(id) ==
    /\ IF ~LightOk(id)
       THEN UNCHANGED << rLights, glShadowMaps, frame >>
       ELSE /\ glShadowMaps' = r3d_light_destroy_shadow_map(glShadowMaps, Light(id))
            /\ rLights' = r3d_registry_remove(rLights, id)
            /\ frame' = [frame EXCEPT !.destroyed = @ \cup {id}]
    /\ trace' = NoTrace
    /\ UNCHANGED frameRest

R3D_IsLightExist(id) == LightOk(id)

R3D_GetLightType(id) == IF ~LightOk(id) THEN 0 ELSE Light(id).type

R3D_IsLightActive(id) == IF ~LightOk(id) THEN FALSE ELSE Light(id).enabled

R3D_GetLightPosition(id) == IF ~LightOk(id) THEN 0 ELSE Light(id).position

R3D_IsShadowEnabled(id) == IF ~LightOk(id) THEN FALSE ELSE Light(id).shadow.enabled

R3D_HasShadowMap(id) == IF ~LightOk(id) THEN FALSE ELSE Light(id).shadow.map.id # 0

R3D_GetShadowUpdateMode(id) ==
    IF ~LightOk(id) THEN 0 ELSE Light(id).shadow.updateConf.mode

R3D_GetShadowUpdateFrequency(id) ==
    IF ~LightOk(id) THEN 0 ELSE Light(id).shadow.updateConf.frequencyMs

R3D_ToggleLight(id) ==
    /\ IF ~LightOk(id)
       THEN UNCHANGED << rLights, frame >>
       ELSE LET enabled == ~Light(id).enabled
                set == enabled /\ Light(id).shadow.enabled
            IN  /\ SetLight(id, [Light(id) EXCEPT
                       !.enabled = enabled,
                       !.shadow.updateConf.shoudlUpdate = IF set THEN TRUE ELSE @])
                /\ SetHist(id, [Disturb(frame.hist[id]) EXCEPT
                       !.why = IF set THEN @ \cup {"activate"} ELSE @])
    /\ trace' = NoTrace
    /\ UNCHANGED << glShadowMaps, frameRest >>

R3D_SetLightActive(id, active) ==
    /\ IF ~LightOk(id) \/ Light(id).enabled = active
       THEN UNCHANGED << rLights, frame >>
       ELSE LET set == active /\ Light(id).shadow.enabled
            IN  /\ SetLight(id, [Light(id) EXCEPT
                       !.enabled = active,
                       !.shadow.updateConf.shoudlUpdate = IF set THEN TRUE ELSE @])
                /\ SetHist(id, [Disturb(frame.hist[id]) EXCEPT
                       !.why = IF set THEN @ \cup {"activate"} ELSE @])
    /\ trace' = NoTrace
    /\ UNCHANGED << glShadowMaps, frameRest >>

R3D_SetLightPosition(id, position) ==
    /\ IF ~LightOk(id)
       THEN UNCHANGED << rLights, frame >>
       ELSE /\ SetLight(id, [Light(id) EXCEPT !.position = position])
            /\ SetHist(id, Disturb(frame.hist[id]))
    /\ trace' = NoTrace
    /\ UNCHANGED << glShadowMaps, frameRest >>

\* R3D_EnableShadow that marks the new map for an update.
EnableShadowRequestsUpdate(id, resolution) ==
    /\ IF ~LightOk(id)
       THEN UNCHANGED << rLights, glShadowMaps, frame >>
       ELSE LET light == Light(id)
                freed == r3d_light_destroy_shadow_map(glShadowMaps, light)
                res == IF resolution = 0 THEN DefaultShadowResolution ELSE resolution
                map == IF light.shadow.map.id # 0
                       THEN IF resolution > 0 /\ light.shadow.map.resolution # resolution
                            THEN r3d_light_create_shadow_map(freed, resolution)
                            ELSE light.shadow.map
                       ELSE r3d_light_create_shadow_map(glShadowMaps, res)
            IN  /\ glShadowMaps' = (IF map = light.shadow.map THEN glShadowMaps
                                    ELSE freed) \cup {map.id}
                /\ SetLight(id, [light EXCEPT !.shadow.map = map,
                                              !.shadow.enabled = TRUE,
                                              !.shadow.updateConf.shoudlUpdate = TRUE])
                /\ SetHist(id, [Disturb(frame.hist[id]) EXCEPT
                       !.drawn = IF map = light.shadow.map THEN @ ELSE FALSE])
    /\ trace' = NoTrace
    /\ UNCHANGED frameRest

\* R3D_EnableShadow that never allocates when the light has no map yet.
EnableShadowWithoutMap(id, resolution) ==
    /\ IF ~LightOk(id)
       THEN UNCHANGED << rLights, frame >>
       ELSE /\ SetLight(id, [Light(id) EXCEPT !.shadow.enabled = TRUE])
            /\ SetHist(id, Disturb(frame.hist[id]))
    /\ trace' = NoTrace
    /\ UNCHANGED << glShadowMaps, frameRest >>

R3D_EnableShadow(id, resolution) ==
    /\ IF ~LightOk(id)
       THEN UNCHANGED << rLights, glShadowMaps, frame >>
       ELSE LET light == Light(id)
                freed == r3d_light_destroy_shadow_map(glShadowMaps, light)
                res == IF resolution = 0 THEN DefaultShadowResolution ELSE resolution
                map == IF light.shadow.map.id # 0
                       THEN IF resolution > 0 /\ light.shadow.map.resolution # resolution
                            THEN r3d_light_create_shadow_map(freed, resolution)
                            ELSE light.shadow.map
                       ELSE r3d_light_create_shadow_map(glShadowMaps, res)
            IN  /\ glShadowMaps' = (IF map = light.shadow.map THEN glShadowMaps
                                    ELSE freed) \cup {map.id}
                /\ SetLight(id, [light EXCEPT !.shadow.map = map,
                                              !.shadow.enabled = TRUE])
                /\ SetHist(id, [Disturb(frame.hist[id]) EXCEPT
                       !.drawn = IF map = light.shadow.map THEN @ ELSE FALSE])
    /\ trace' = NoTrace
    /\ UNCHANGED frameRest

\* R3D_DisableShadow that checks the slot range but not the validity flag.
DisableShadowOnStaleSlot(id, destroyMap) ==
    /\ IF id \notin 1..MaxLights
       THEN UNCHANGED << rLights, glShadowMaps, frame >>
       ELSE /\ glShadowMaps' = IF destroyMap
                               THEN r3d_light_destroy_shadow_map(glShadowMaps, Light(id))
                               ELSE glShadowMaps
            /\ SetLight(id, [Light(id) EXCEPT
                   !.shadow.map = IF destroyMap THEN [id |-> 0, resolution |-> 0] ELSE @,
                   !.shadow.enabled = FALSE])
            /\ SetHist(id, [Disturb(frame.hist[id]) EXCEPT
                   !.drawn = IF destroyMap THEN FALSE ELSE @])
    /\ trace' = NoTrace
    /\ UNCHANGED frameRest

R3D_DisableShadow(id, destroyMap) ==
    /\ IF ~LightOk(id)
       THEN UNCHANGED << rLights, glShadowMaps, frame >>
       ELSE /\ glShadowMaps' = IF destroyMap
                               THEN r3d_light_destroy_shadow_map(glShadowMaps, Light(id))
                               ELSE glShadowMaps
            /\ SetLight(id, [Light(id) EXCEPT
                   !.shadow.map = IF destroyMap THEN [id |-> 0, resolution |-> 0] ELSE @,
                   !.shadow.enabled = FALSE])
            /\ SetHist(id, [Disturb(frame.hist[id]) EXCEPT
                   !.drawn = IF destroyMap THEN FALSE ELSE @])
    /\ trace' = NoTrace
    /\ UNCHANGED frameRest

R3D_SetShadowUpdateMode(id, mode) ==
    /\ IF ~LightOk(id)
       THEN UNCHANGED << rLights, frame >>
       ELSE /\ SetLight(id, [Light(id) EXCEPT !.shadow.updateConf.mode = mode])
            /\ SetHist(id, Disturb(frame.hist[id]))
    /\ trace' = NoTrace
    /\ UNCHANGED << glShadowMaps, frameRest >>

R3D_SetShadowUpdateFrequency(id, msec) ==
    /\ IF ~LightOk(id)
       THEN UNCHANGED << rLights, frame >>
       ELSE /\ SetLight(id, [Light(id) EXCEPT !.shadow.updateConf.frequencyMs = msec])
            /\ SetHist(id, Disturb(frame.hist[id]))
    /\ trace' = NoTrace
    /\ UNCHANGED << glShadowMaps, frameRest >>

R3D_UpdateShadowMap(id) ==
    /\ IF ~LightOk(id)
       THEN UNCHANGED << rLights, frame >>
       ELSE /\ SetLight(id, [Light(id) EXCEPT !.shadow.updateConf.shoudlUpdate = TRUE])
            /\ SetHist(id, [Disturb(frame.hist[id]) EXCEPT !.why = @ \cup {"update"}])
    /\ trace' = NoTrace
    /\ UNCHANGED << glShadowMaps, frameRest >>

(* ------------------------------- sorting ------------------------------ *)

Perms(n) == { p \in [1..n -> 1..n] : \A i, j \in 1..n : p[i] = p[j] => i = j }

Reorder(calls, p) == [i \in 1..Len(calls) |-> calls[p[i]]]

\* R3D.state.posView, the reference point of the front-to-back comparator:
\* the camera position of the frame.
posView == camPos

\* The comparator with its two operands exchanged.
CompareFrontToBackSwapped(a, b, view) ==
    LET distA == Vector3DistanceSqr(view, a.pos)
        distB == Vector3DistanceSqr(view, b.pos)
    IN  (IF distB > distA THEN 1 ELSE 0) - (IF distB < distA THEN 1 ELSE 0)

\* r3d_drawcall_compare_front_to_back: (distA > distB) - (distA < distB).
r3d_drawcall_compare_front_to_back(a, b, view) ==
    LET distA == Vector3DistanceSqr(view, a.pos)
        distB == Vector3DistanceSqr(view, b.pos)
    IN  (IF distA > distB THEN 1 ELSE 0) - (IF distA < distB THEN 1 ELSE 0)

\* The comparator of the back-to-front sort: the opposite sign.
r3d_drawcall_compare_back_to_front(a, b, view) ==
    LET distA == Vector3DistanceSqr(view, a.pos)
        distB == Vector3DistanceSqr(view, b.pos)
    IN  (IF distA < distB THEN 1 ELSE 0) - (IF distA > distB THEN 1 ELSE 0)

\* qsort with the comparator: every ordering of the array in which no
\* element compares greater than a later one (ties land in any order).
r3d_drawcall_sort_front_to_back(calls, view) ==
    { s \in { Reorder(calls, p) : p \in Perms(Len(calls)) } :
        \A i, j \in 1..Len(calls) :
            i < j => r3d_drawcall_compare_front_to_back(s[i], s[j], view) <= 0 }

r3d_drawcall_sort_back_to_front(calls, view) ==
    { s \in { Reorder(calls, p) : p \in Perms(Len(calls)) } :
        \A i, j \in 1..Len(calls) :
            i < j => r3d_drawcall_compare_back_to_front(s[i], s[j], view) <= 0 }

\* r3d_prepare_sort_drawcalls that also sorts the two instanced bins.
SortDrawcallsSortsInstanced ==
    { [deferred |-> d, forward |-> f, deferredInst |-> di, forwardInst |-> fi] :
        d \in r3d_drawcall_sort_front_to_back(aDrawDeferred, posView),
        f \in r3d_drawcall_sort_back_to_front(aDrawForward, camPos),
        di \in r3d_drawcall_sort_front_to_back(aDrawDeferredInst, posView),
        fi \in r3d_drawcall_sort_back_to_front(aDrawForwardInst, camPos) }

\* r3d_prepare_sort_drawcalls: the contents the four bins can have after
\* it; it sorts the two non-instanced bins and touches no other.
r3d_prepare_sort_drawcalls ==
    { [deferred |-> d, forward |-> f,
       deferredInst |-> aDrawDeferredInst, forwardInst |-> aDrawForwardInst] :
        d \in r3d_drawcall_sort_front_to_back(aDrawDeferred, posView),
        f \in r3d_drawcall_sort_back_to_front(aDrawForward, camPos) }

(* ---------------------------- light batching -------------------------- *)

\* raylib's CheckCollisionRecs.
CheckCollisionRecs(r1, r2) ==
    /\ r1.x < r2.x + r2.width
    /\ r1.x + r1.width > r2.x
    /\ r1.y < r2.y + r2.height
    /\ r1.y + r1.height > r2.y

Clamp(v, lo, hi) == IF v < lo THEN lo ELSE IF v > hi THEN hi ELSE v

\* r3d_project_cone_bounding_box / r3d_project_sphere_bounding_box: the
\* screen rectangle of a spot or omni light as seen from the camera
\* position of R3D_Begin: a 2 x 2 footprint whose left edge is the light's
\* position relative to the camera.
r3d_project_bounding_box(light) ==
    [x |-> light.position - camPos, y |-> 0, width |-> 2, height |-> 2]

\* The switch on light->type with the directional case removed.
LightRectProjectsAll(light) ==
    r3d_project_bounding_box(light)

\* The destination rectangle computed by the switch on light->type.
LightRect(light) ==
    IF light.type = "DIR"
    THEN [x |-> 0, y |-> 0, width |-> stateResolution.width, height |-> stateResolution.height]
    ELSE r3d_project_bounding_box(light)

\* The clamp of the rectangle to the screen.
ClampRect(r) ==
    LET w1 == IF r.x < 0 THEN r.width + r.x ELSE r.width
        x1 == IF r.x < 0 THEN 0 ELSE r.x
        h1 == IF r.y < 0 THEN r.height + r.y ELSE r.height
        y1 == IF r.y < 0 THEN 0 ELSE r.y
    IN  [x |-> x1, y |-> y1,
         width |-> Clamp(w1, 0, stateResolution.width - x1),
         height |-> Clamp(h1, 0, stateResolution.height - y1)]

\* r3d_light_process_shadow_update: the per-frame update policy.
r3d_light_process_shadow_update(light, dt) ==
    LET conf == light.shadow.updateConf
    IN  CASE conf.mode = "MANUAL" -> light
          [] conf.mode = "INTERVAL" ->
                IF conf.shoudlUpdate THEN light
                ELSE IF conf.timerMs + dt > conf.frequencyMs
                     THEN [light EXCEPT !.shadow.updateConf.timerMs = conf.timerMs + dt,
                                        !.shadow.updateConf.shoudlUpdate = TRUE]
                     ELSE [light EXCEPT !.shadow.updateConf.timerMs = conf.timerMs + dt]
          [] conf.mode = "CONTINUOUS" ->
                [light EXCEPT !.shadow.updateConf.shoudlUpdate = TRUE]

\* r3d_light_indicate_shadow_update: the map has just been rendered.
r3d_light_indicate_shadow_update(light) ==
    [light EXCEPT !.shadow.updateConf.shoudlUpdate = FALSE,
                  !.shadow.updateConf.timerMs = 0]

\* The loop body without the test of light->enabled.
BatchIgnoresEnabled(reg, st, id, dt) ==
    IF ~r3d_registry_is_valid(reg, id) THEN st
    ELSE LET light == st.elements[id]
             dstRect == LightRect(light)
             screen == [x |-> 0, y |-> 0, width |-> stateResolution.width,
                        height |-> stateResolution.height]
         IN  IF ~CheckCollisionRecs(dstRect, screen) THEN st
             ELSE [st EXCEPT !.batch =
                       Append(@, [id |-> id, dstRect |-> ClampRect(dstRect)])]

\* One iteration of the loop of r3d_prepare_process_lights_and_batch on
\* st = [elements, batch, policy], policy being the ids whose flag the
\* update policy set in this frame.
BatchLight(reg, st, id, dt) ==
    IF ~r3d_registry_is_valid(reg, id) THEN st
    ELSE IF ~st.elements[id].enabled THEN st
    ELSE LET before == st.elements[id]
             light == IF before.shadow.enabled
                      THEN r3d_light_process_shadow_update(before, dt)
                      ELSE before
             policy == IF light.shadow.updateConf.shoudlUpdate
                          /\ (~before.shadow.updateConf.shoudlUpdate
                              \/ (before.shadow.enabled
                                  /\ before.shadow.updateConf.mode = "CONTINUOUS"))
                       THEN st.policy \cup {id} ELSE st.policy
             dstRect == LightRect(light)
             screen == [x |-> 0, y |-> 0, width |-> stateResolution.width,
                        height |-> stateResolution.height]
             st1 == [st EXCEPT !.elements[id] = light, !.policy = policy]
         IN  IF ~CheckCollisionRecs(dstRect, screen) THEN st1
             ELSE [st1 EXCEPT !.batch =
                       Append(@, [id |-> id, dstRect |-> ClampRect(dstRect)])]

RECURSIVE BatchFrom(_, _, _, _)
BatchFrom(reg, st, id, dt) ==
    IF id > r3d_registry_get_allocated_count(reg) THEN st
    ELSE BatchFrom(reg, BatchLight(reg, st, id, dt), id + 1, dt)

\* r3d_prepare_process_lights_and_batch: the registry elements after the
\* update policy, and the new light batch.
r3d_prepare_process_lights_and_batch(reg, dt) ==
    BatchFrom(reg, [elements |-> reg.elements, batch |-> << >>, policy |-> {}], 1, dt)

(* ----------------------------- shadow pass ---------------------------- *)

\* r3d_pass_shadow_maps that renders every batched shadow light each frame.
ShadowPassIgnoresFlag(st, i) ==
    LET id == st.batch[i].id
        light == st.elements[id]
    IN  IF ~light.shadow.enabled THEN st
        ELSE [st EXCEPT !.elements[id] = r3d_light_indicate_shadow_update(light),
                        !.rendered = Append(@, id)]

\* r3d_pass_shadow_maps that renders lights whose shadow is disabled.
ShadowPassIgnoresEnabled(st, i) ==
    LET id == st.batch[i].id
        light == st.elements[id]
    IN  IF ~light.shadow.updateConf.shoudlUpdate THEN st
        ELSE [st EXCEPT !.elements[id] = r3d_light_indicate_shadow_update(light),
                        !.rendered = Append(@, id)]

\* One iteration of the loop of r3d_pass_shadow_maps on
\* st = [elements, batch, rendered].
ShadowPassLight(st, i) ==
    LET id == st.batch[i].id
        light == st.elements[id]
    IN  IF ~light.shadow.enabled THEN st
        ELSE IF ~light.shadow.updateConf.shoudlUpdate THEN st
        ELSE [st EXCEPT !.elements[id] = r3d_light_indicate_shadow_update(light),
                        !.rendered = Append(@, id)]

RECURSIVE ShadowPassFrom(_, _)
ShadowPassFrom(st, i) ==
    IF i > Len(st.batch) THEN st
    ELSE ShadowPassFrom(ShadowPassLight(st, i), i + 1)

\* r3d_pass_shadow_maps: the elements after the pass and the ids of the
\* lights whose map was rendered, in batch order.
r3d_pass_shadow_maps(elements, batch) ==
    ShadowPassFrom([elements |-> elements, batch |-> batch, rendered |-> << >>], 1)

(* --------------------------- post-processing -------------------------- *)

\* The source of the init copy: the scene colour attachment.
SceneColor == "scene"

\* r3d_pass_post_init: attach textures[targetTexIdx], blit the scene colour
\* into it, flip the index.  Each pass returns the post framebuffer after
\* it and the textures it read and wrote.
r3d_pass_post_init(p) ==
    [ post |-> [targetTexIdx |-> 1 - p.targetTexIdx, attached |-> p.targetTexIdx],
      io |-> [stage |-> "post_init", read |-> SceneColor, write |-> p.targetTexIdx] ]

\* A post stage that samples the texture it is attached to.
PostStageReadsTarget(p, stage) ==
    [ post |-> [targetTexIdx |-> 1 - p.targetTexIdx, attached |-> p.targetTexIdx],
      io |-> [stage |-> stage, read |-> p.targetTexIdx, write |-> p.targetTexIdx] ]

\* The body shared by r3d_pass_post_bloom (its composite), _fog, _tonemap,
\* _adjustment and _fxaa: attach textures[targetTexIdx], sample
\* textures[!targetTexIdx], flip the index.
r3d_pass_post_stage(p, stage) ==
    [ post |-> [targetTexIdx |-> 1 - p.targetTexIdx, attached |-> p.targetTexIdx],
      io |-> [stage |-> stage, read |-> 1 - p.targetTexIdx, write |-> p.targetTexIdx] ]

\* r3d_pass_final_blit: GL_READ_FRAMEBUFFER is the post framebuffer, so the
\* blit reads the texture on its colour attachment 0.
r3d_pass_final_blit(p) == p.attached

RECURSIVE PostChain(_, _, _)
PostChain(p, stages, log) ==
    IF stages = << >> THEN [post |-> p, log |-> log]
    ELSE LET r == IF Head(stages) = "post_init"
                  THEN r3d_pass_post_init(p)
                  ELSE r3d_pass_post_stage(p, Head(stages))
         IN  PostChain(r.post, Tail(stages), Append(log, r.io))

(* ----------------------------- pass sequence -------------------------- *)

PassOrder ==
    << "sort", "batch", "shadow", "gbuffer", "ssao", "lit_env", "lit_obj",
       "scene_deferred", "background", "forward_prepass", "forward",
       "post_init", "bloom", "fog", "tonemap", "adjustment", "fxaa",
       "final_blit", "reset" >>

PostStages == {"post_init", "bloom", "fog", "tonemap", "adjustment", "fxaa"}

If(cond, pass) == IF cond THEN << pass >> ELSE << >>

\* R3D_End that runs the background pass before the G-buffer pass.
PassesBackgroundFirst(nDeferred, nForward) ==
    << "sort", "batch", "shadow", "background", "gbuffer" >>
    \o If(env.ssaoEnabled, "ssao")
    \o (IF nDeferred > 0 THEN << "lit_env", "lit_obj", "scene_deferred" >> ELSE << >>)
    \o If(nForward > 0 /\ "DEPTH_PREPASS" \in flags, "forward_prepass")
    \o If(nForward > 0, "forward")
    \o << "post_init" >>
    \o If(env.bloomMode # "DISABLED", "bloom")
    \o If(env.fogMode # "DISABLED", "fog")
    \o If(env.tonemapMode # "LINEAR" \/ env.tonemapExposure # 10, "tonemap")
    \o << "adjustment" >>
    \o If("FXAA" \in flags, "fxaa")
    \o << "final_blit", "reset" >>

\* The calls of R3D_End in the order it makes them; nDeferred and nForward
\* count the records of the two deferred and the two forward bins.
Passes(nDeferred, nForward) ==
    << "sort", "batch", "shadow", "gbuffer" >>
    \o If(env.ssaoEnabled, "ssao")
    \o (IF nDeferred > 0 THEN << "lit_env", "lit_obj", "scene_deferred" >> ELSE << >>)
    \o << "background" >>
    \o If(nForward > 0 /\ "DEPTH_PREPASS" \in flags, "forward_prepass")
    \o If(nForward > 0, "forward")
    \o << "post_init" >>
    \o If(env.bloomMode # "DISABLED", "bloom")
    \o If(env.fogMode # "DISABLED", "fog")
    \o If(env.tonemapMode # "LINEAR" \/ env.tonemapExposure # 10, "tonemap")
    \o << "adjustment" >>
    \o If("FXAA" \in flags, "fxaa")
    \o << "final_blit", "reset" >>

(* ------------------------------- frame end ---------------------------- *)

SeqIds(s) == [i \in 1..Len(s) |-> s[i].id]

Reverse(s) == [i \in 1..Len(s) |-> s[Len(s) + 1 - i]]

\* r3d_pass_gbuffer that draws the non-instanced bin a second time.
GbufferDrawsTwice(b) ==
    SeqIds(b.deferredInst) \o SeqIds(b.deferred) \o SeqIds(b.deferred)

\* r3d_pass_gbuffer on the bins b: the records it rasterises, in order.
r3d_pass_gbuffer(b) ==
    SeqIds(b.deferredInst) \o SeqIds(b.deferred)

\* r3d_pass_scene_forward_depth_prepass: the instanced bin in order, then
\* the non-instanced bin from its last record to its first.
r3d_pass_scene_forward_depth_prepass(b) ==
    SeqIds(b.forwardInst) \o Reverse(SeqIds(b.forward))

\* r3d_pass_scene_forward: the instanced bin, then the non-instanced bin.
r3d_pass_scene_forward(b) ==
    SeqIds(b.forwardInst) \o SeqIds(b.forward)

\* r3d_collision_check_point_in_sphere_sqr on the one modelled axis.
r3d_collision_check_point_in_sphere_sqr(point, center, radius) ==
    Vector3DistanceSqr(point, center) <= radius * radius

\* r3d_pass_scene_forward_filter_and_send_lights for the draw call: the
\* enabled flags of uLights[] it leaves, from the flags u it finds.  Slot i
\* of the code is slot i + 1 here.  The loop visits the first lightCount
\* slots; a spot or omni light whose range sphere misses the call's origin
\* is skipped (continue) before any uniform of its slot is sent; the slots
\* from lightCount on are disabled.
r3d_pass_scene_forward_filter_and_send_lights(u, elements, batch, call) ==
    LET lightCount == Min({R3D_SHADER_FORWARD_NUM_LIGHTS, Len(batch)})
        skipped(i) ==
            LET light == elements[batch[i].id]
            IN  /\ light.type # "DIR"
                /\ ~r3d_collision_check_point_in_sphere_sqr(
                        call.pos, light.position, light.range)
    IN  [i \in 1..R3D_SHADER_FORWARD_NUM_LIGHTS |->
            IF i > lightCount THEN FALSE
            ELSE IF skipped(i) THEN u[i] ELSE TRUE]

\* The non-instanced loop of r3d_pass_scene_forward over calls: the flags
\* it leaves and, per call, the flags the call is drawn with.
RECURSIVE ForwardLights(_, _, _, _)
ForwardLights(u, elements, batch, calls) ==
    IF calls = << >> THEN [u |-> u, sent |-> << >>]
    ELSE LET n == r3d_pass_scene_forward_filter_and_send_lights(
                      u, elements, batch, Head(calls))
             rest == ForwardLights(n, elements, batch, Tail(calls))
         IN  [ u |-> rest.u,
               sent |-> << [id |-> Head(calls).id, pos |-> Head(calls).pos,
                            enabled |-> n] >> \o rest.sent ]

\* A texture of a ping-pong pair by its index.
Tex(i) == IF i = 0 THEN "textures[0]" ELSE "textures[1]"

\* The blur loop of r3d_pass_ssao and r3d_pass_post_bloom from iteration i
\* of n on, *horizontalPass being hp: each iteration attaches textures[hp]
\* and samples textures[!hp], the first one (i = 0) samples first; hp is
\* negated after each iteration.  The result holds the iterations and the
\* targetTexIdx the loop leaves.
RECURSIVE BlurLoop(_, _, _, _)
BlurLoop(i, n, hp, first) ==
    IF i >= n THEN [log |-> << >>, targetTexIdx |-> hp]
    ELSE LET rest == BlurLoop(i + 1, n, 1 - hp, first)
         IN  [ log |-> << [ write |-> Tex(hp),
                            read |-> IF i > 0 THEN Tex(1 - hp) ELSE first ] >>
                       \o rest.log,
               targetTexIdx |-> rest.targetTexIdx ]

\* r3d_pass_ssao: the raw occlusion goes to textures[0], the loop starts
\* with *horizontalPass = true and samples textures[!hp] in every
\* iteration; r3d_pass_scene_deferred (sampled) reads
\* textures[!targetTexIdx].
r3d_pass_ssao ==
    LET b == BlurLoop(0, env.ssaoIterations, 1, Tex(0))
    IN  [ source |-> Tex(0), written |-> << Tex(0) >>, log |-> b.log,
          sampled |-> Tex(1 - b.targetTexIdx) ]

\* r3d_pass_post_bloom: the loop starts with *horizontalPass = true and
\* samples the scene's bright buffer in its first iteration; the composite
\* reads textures[!targetTexIdx].
r3d_pass_post_bloom ==
    LET b == BlurLoop(0, env.bloomIterations, 1, "scene.bright")
    IN  [ source |-> "scene.bright", written |-> << >>, log |-> b.log,
          sampled |-> Tex(1 - b.targetTexIdx) ]

\* No blur pass in the frame.
NoBlur == [source |-> "", written |-> << >>, log |-> << >>, sampled |-> ""]

\* The passes R3D_End runs only when a flag or the environment asks for them.
OptionalPasses == {"ssao", "bloom", "fog", "fxaa"}

\* The program an optional pass enables and the framebuffer it binds.
PassUses(pass) ==
    CASE pass = "ssao" ->
            [ pass |-> pass, program |-> shader["screen.ssao"],
              fb |-> framebuffer.pingPongSSAO.id ]
      [] pass = "bloom" ->
            [ pass |-> pass, program |-> shader["screen.bloom"],
              fb |-> framebuffer.pingPongBloom.id ]
      [] pass = "fog" ->
            [ pass |-> pass, program |-> shader["screen.fog"],
              fb |-> framebuffer.post.id ]
      [] pass = "fxaa" ->
            [ pass |-> pass, program |-> shader["screen.fxaa"],
              fb |-> framebuffer.post.id ]

\* The history of light id after a frame of dt ms in which its shadow map
\* was (rendered) or was not rendered.
HistAfterEnd(h, light, id, dt, rendered, inBatch, policy) ==
    LET eligible == light.enabled /\ inBatch /\ light.shadow.enabled
                    /\ light.shadow.updateConf.mode = "INTERVAL"
        counted == h.frames >= 0 /\ h.frames < 5 /\ dt = 16
    IN  [ why |-> IF rendered THEN {}
                  ELSE IF id \in policy
                       THEN h.why \cup {light.shadow.updateConf.mode} ELSE h.why,
          acc |-> IF rendered THEN 0
                  ELSE IF h.acc >= 0 /\ eligible THEN h.acc + dt ELSE -1,
          frames |-> IF h.frames < 0 \/ dt # 16 THEN -1
                     ELSE IF h.frames < 5 THEN h.frames + 1 ELSE h.frames,
          renders |-> IF counted /\ rendered THEN h.renders + 1 ELSE h.renders,
          drawn |-> h.drawn \/ rendered ]

(* ------------------------------ GL state ------------------------------ *)

\* The GL state at the call of R3D_End: of the application's nothing is
\* known, the depth mask is as the last call that set it left it.  draw and
\* read are the framebuffers bound for drawing and for reading.
EntryGL ==
    [ draw |-> -1, read |-> -1, cullFace |-> "any", colorBlend |-> "any",
      depthTest |-> "any", depthMask |-> glDepthMask ]

\* rlEnableFramebuffer(id) binds GL_FRAMEBUFFER, the draw and the read
\* target at once.
rlEnableFramebuffer(g, id) == [g EXCEPT !.draw = id, !.read = id]

\* The state a full-screen pass sets before it draws: no blending, no
\* depth test, on the framebuffer it renders to.
ScreenPassGL(g, id) ==
    [rlEnableFramebuffer(g, id) EXCEPT !.colorBlend = "off", !.depthTest = "off"]

\* r3d_reset_raylib_state without its rlEnableColorBlend().
ResetKeepsBlend(g) ==
    [rlEnableFramebuffer(g, 0) EXCEPT !.cullFace = "on", !.depthTest = "off"]

r3d_reset_raylib_state(g) ==
    [rlEnableFramebuffer(g, 0) EXCEPT
        !.cullFace = "on", !.colorBlend = "on", !.depthTest = "off"]

\* The GL state a pass of R3D_End leaves, from the state g it finds; dstId
\* is the framebuffer the final blit draws to.
PassGL(pass, g, dstId) ==
    CASE pass \in {"sort", "batch"} -> g
      [] pass = "shadow" ->
            rlEnableFramebuffer([g EXCEPT !.colorBlend = "off", !.depthTest = "on"], 0)
      [] pass = "gbuffer" ->
            [rlEnableFramebuffer(g, framebuffer.gBuffer.id) EXCEPT
                !.cullFace = "on", !.colorBlend = "off", !.depthTest = "on",
                !.depthMask = "on"]
      [] pass = "ssao" -> ScreenPassGL(g, framebuffer.pingPongSSAO.id)
      [] pass = "lit_env" ->
            [ScreenPassGL(g, framebuffer.litEnv.id) EXCEPT !.depthMask = "off"]
      [] pass = "lit_obj" ->
            [rlEnableFramebuffer(g, framebuffer.litObj.id) EXCEPT
                !.depthTest = "off", !.colorBlend = "on"]
      [] pass \in {"scene_deferred", "background"} ->
            ScreenPassGL(g, framebuffer.scene.id)
      [] pass = "forward_prepass" ->
            [rlEnableFramebuffer(g, framebuffer.scene.id) EXCEPT
                !.cullFace = "on", !.depthTest = "on", !.depthMask = "on"]
      [] pass = "forward" ->
            [rlEnableFramebuffer(g, framebuffer.scene.id) EXCEPT
                !.cullFace = "on", !.depthTest = "on",
                !.depthMask = IF "DEPTH_PREPASS" \in flags THEN "off" ELSE "on"]
      [] pass = "post_init" ->
            [g EXCEPT !.draw = framebuffer.post.id, !.read = framebuffer.scene.id]
      [] pass \in {"bloom", "fog", "tonemap", "adjustment", "fxaa"} ->
            ScreenPassGL(g, framebuffer.post.id)
      [] pass = "final_blit" ->
            [g EXCEPT !.draw = dstId, !.read = framebuffer.gBuffer.id]
      [] pass = "reset" -> r3d_reset_raylib_state(g)

RECURSIVE GLAfter(_, _, _)
GLAfter(passes, g, dstId) ==
    IF passes = << >> THEN g
    ELSE GLAfter(Tail(passes), PassGL(Head(passes), g, dstId), dstId)

\* The depth mask each pass of R3D_End draws under, pass by pass.
RECURSIVE DepthMasks(_, _, _)
DepthMasks(passes, g, dstId) ==
    IF passes = << >> THEN << >>
    ELSE LET n == PassGL(Head(passes), g, dstId)
         IN  << [pass |-> Head(passes), depthMask |-> n.depthMask] >>
             \o DepthMasks(Tail(passes), n, dstId)

(* ------------------------------ final blit ---------------------------- *)

\* (int)(n / d + 0.5f) for n >= 0 and d > 0.
RoundDiv(n, d) == (2 * n + d) \div (2 * d)

\* r3d_pass_final_blit: the framebuffer it draws to, its size (target) and
\* the destination rectangle of the two blits; screenWidth and screenHeight are
\* GetScreenWidth() and GetScreenHeight().  srcRatio > dstRatio is
\* compared on the cross products, the sizes being positive.
r3d_pass_final_blit_dst(screenWidth, screenHeight) ==
    LET custom == framebuffer.customTarget.id # 0
        dstId == IF custom THEN framebuffer.customTarget.id ELSE 0
        dstW == IF custom THEN framebuffer.customTarget.width ELSE screenWidth
        dstH == IF custom THEN framebuffer.customTarget.height ELSE screenHeight
        w == stateResolution.width
        h == stateResolution.height
        target == [width |-> dstW, height |-> dstH]
    IN  IF "ASPECT_KEEP" \notin flags
        THEN [id |-> dstId, target |-> target,
              x |-> 0, y |-> 0, width |-> dstW, height |-> dstH]
        ELSE IF w * dstH > dstW * h
             THEN LET newH == RoundDiv(dstW * w, h)
                  IN  [id |-> dstId, target |-> target,
                       x |-> 0, y |-> CDiv(dstH - newH, 2),
                       width |-> dstW, height |-> newH]
             ELSE LET newW == RoundDiv(dstH * w, h)
                  IN  [id |-> dstId, target |-> target,
                       x |-> CDiv(dstW - newW, 2), y |-> 0,
                       width |-> newW, height |-> dstH]

\* R3D_End; dt is GetFrameTime() of the frame.
R3D_End(dt, screenWidth, screenHeight) ==
    LET b == r3d_prepare_process_lights_and_batch(rLights, dt)
        sh == r3d_pass_shadow_maps(b.elements, b.batch)
        \* sorting leaves the counts of the bins as they are
        passes == Passes(Len(aDrawDeferred) + Len(aDrawDeferredInst),
                         Len(aDrawForward) + Len(aDrawForwardInst))
        ran == Range(passes)
        chain == PostChain(post, SelectSeq(passes, LAMBDA x : x \in PostStages), << >>)
        dst == r3d_pass_final_blit_dst(screenWidth, screenHeight)
        gl == GLAfter(passes, EntryGL, dst.id)
        batchIds == Ids(b.batch)
        renderedIds == Range(sh.rendered)
        why(id) == IF id \in b.policy
                   THEN frame.hist[id].why \cup {b.elements[id].shadow.updateConf.mode}
                   ELSE frame.hist[id].why
        \* the trace but for the fields that depend on the sorted bins
        fixed ==
            [ valid |-> TRUE,
              passes |-> passes,
              postLog |-> chain.log,
              blit |-> r3d_pass_final_blit(chain.post),
              blitDst |-> dst,
              glBlit |-> GLAfter(SelectSeq(passes, LAMBDA x : x # "reset"),
                                 EntryGL, dst.id),
              gl |-> gl,
              gbuffer |-> << >>, prepass |-> << >>, forward |-> << >>,
              shadows |-> [i \in 1..Len(sh.rendered) |->
                  LET id == sh.rendered[i]
                  IN  [ id |-> id,
                        mode |-> b.elements[id].shadow.updateConf.mode,
                        frequencyMs |-> b.elements[id].shadow.updateConf.frequencyMs,
                        why |-> why(id),
                        gap |-> IF frame.hist[id].acc >= 0
                                THEN frame.hist[id].acc + dt ELSE -1 ]],
              pending |-> { id \in LiveLights :
                              b.elements[id].shadow.updateConf.shoudlUpdate },
              shadowOn |-> { id \in LiveLights : b.elements[id].shadow.enabled },
              uses |-> LET opt == SelectSeq(passes, LAMBDA x : x \in OptionalPasses)
                       IN  [i \in 1..Len(opt) |-> PassUses(opt[i])],
              depthMasks |-> DepthMasks(passes, EntryGL, dst.id),
              sent |-> << >>,
              ssao |-> IF "ssao" \in ran THEN r3d_pass_ssao ELSE NoBlur,
              bloom |-> IF "bloom" \in ran THEN r3d_pass_post_bloom ELSE NoBlur ]
    IN  /\ rLights' = [rLights EXCEPT !.elements = sh.elements]
        /\ aLightBatch' = b.batch
        /\ post' = chain.post
        /\ glDepthMask' = gl.depthMask
        /\ frame' = [frame EXCEPT
              !.began = FALSE,
              !.hist = [id \in 1..MaxLights |->
                  IF r3d_registry_is_valid(rLights, id)
                  THEN HistAfterEnd(frame.hist[id], b.elements[id], id, dt,
                                    id \in renderedIds, id \in batchIds, b.policy)
                  ELSE frame.hist[id]]]
        /\ \E bins \in r3d_prepare_sort_drawcalls :
              LET fwd == ForwardLights(uLights, sh.elements, b.batch,
                                       IF "forward" \in ran THEN bins.forward
                                       ELSE << >>)
              IN  /\ aDrawDeferred' = bins.deferred
                  /\ aDrawForward' = bins.forward
                  /\ aDrawDeferredInst' = bins.deferredInst
                  /\ aDrawForwardInst' = bins.forwardInst
                  /\ uLights' = fwd.u
                  /\ trace' = [fixed EXCEPT
                        !.gbuffer = r3d_pass_gbuffer(bins),
                        !.prepass = IF "forward_prepass" \in ran
                                    THEN r3d_pass_scene_forward_depth_prepass(bins)
                                    ELSE << >>,
                        !.forward = IF "forward" \in ran
                                    THEN r3d_pass_scene_forward(bins) ELSE << >>,
                        !.sent = fwd.sent]
        /\ UNCHANGED << deviceVars, programVars, flags, env, render, camPos,
                        glShadowMaps >>

(* ---------------------------- state and flags ------------------------- *)

envRest == << render, camPos, binVars, rLights, aLightBatch, glShadowMaps, post,
             deviceVars, uLights, glDepthMask, frame >>

\* The three fields as the state the load and unload functions work on.
Programs == [shader |-> shader, texture |-> texture, gl |-> glObjects]

R3D_SetState(fl) ==
    /\ flags' = flags \cup fl
    /\ IF "FXAA" \in fl /\ shader["screen.fxaa"] = 0
       THEN LET st == r3d_shader_load(Programs, "screen.fxaa")
            IN  /\ shader' = st.shader
                /\ glObjects' = st.gl
                /\ UNCHANGED texture
       ELSE UNCHANGED programVars
    /\ trace' = NoTrace
    /\ UNCHANGED << env, envRest >>

R3D_ClearState(fl) ==
    /\ flags' = flags \ fl
    /\ trace' = NoTrace
    /\ UNCHANGED << env, programVars, envRest >>

R3D_SetSSAO(enabled) ==
    /\ env' = [env EXCEPT !.ssaoEnabled = enabled]
    /\ trace' = NoTrace
    /\ UNCHANGED << flags, programVars, envRest >>

\* R3D_SetSSAOIterations and R3D_SetBloomIterations: each assigns its
\* argument to the field of its name.
R3D_SetSSAOIterations(value) ==
    /\ env' = [env EXCEPT !.ssaoIterations = value]
    /\ trace' = NoTrace
    /\ UNCHANGED << flags, programVars, envRest >>

R3D_SetBloomIterations(value) ==
    /\ env' = [env EXCEPT !.bloomIterations = value]
    /\ trace' = NoTrace
    /\ UNCHANGED << flags, programVars, envRest >>

R3D_SetBloom(mode) ==
    /\ env' = [env EXCEPT !.bloomMode = mode]
    /\ trace' = NoTrace
    /\ UNCHANGED << flags, programVars, envRest >>

R3D_SetFogMode(mode) ==
    /\ env' = [env EXCEPT !.fogMode = mode]
    /\ trace' = NoTrace
    /\ UNCHANGED << flags, programVars, envRest >>

R3D_SetTonemapMode(mode) ==
    /\ env' = [env EXCEPT !.tonemapMode = mode]
    /\ trace' = NoTrace
    /\ UNCHANGED << flags, programVars, envRest >>

R3D_SetTonemapExposure(value) ==
    /\ env' = [env EXCEPT !.tonemapExposure = value]
    /\ trace' = NoTrace
    /\ UNCHANGED << flags, programVars, envRest >>

R3D_SetTonemapWhite(value) ==
    /\ env' = [env EXCEPT !.tonemapWhite = value]
    /\ trace' = NoTrace
    /\ UNCHANGED << flags, programVars, envRest >>

\* R3D_SetBloomIntensity, R3D_SetBloomHdrThreshold, R3D_SetFogStart,
\* R3D_SetFogEnd, R3D_SetFogDensity, R3D_SetBrightness, R3D_SetContrast and
\* R3D_SetSaturation: each assigns its argument to the field of its name.
R3D_SetFloat(field, value) ==
    /\ env' = [env EXCEPT ![field] = value]
    /\ trace' = NoTrace
    /\ UNCHANGED << flags, programVars, envRest >>

\* The getters of r3d_environment.c by the parameter they are named after,
\* each the field its return statement reads.
R3D_Get ==
    [ bloomMode |-> env.bloomMode,
      bloomIntensity |-> env.bloomIntensity,
      bloomHdrThreshold |-> env.bloomHdrThreshold,
      fogMode |-> env.fogMode,
      fogStart |-> env.fogStart,
      fogEnd |-> env.fogEnd,
      fogDensity |-> env.fogDensity,
      tonemapMode |-> env.tonemapMode,
      tonemapExposure |-> env.tonemapExposure,
      tonemapWhite |-> env.tonemapExposure,
      brightness |-> env.brightness,
      contrast |-> env.contrast,
      saturation |-> env.saturation ]

(* -------------------------------- init -------------------------------- *)

\* R3D.env where R3D_Init loads the GL objects: the fields are those of
\* the zero-initialised R3D, the defaults being assigned after the loads.
ZeroEnv == [ssaoEnabled |-> FALSE, bloomMode |-> "DISABLED", fogMode |-> "DISABLED"]

\* R3D_Init(resWidth, resHeight, fl): the state it leaves.  The float
\* parameters of the environment are in tenths (10 is 1.0f), the fog
\* density in hundredths (5 is 0.05f).
R3D_Init(resWidth, resHeight, fl) ==
    /\ flags = fl
    /\ env = [ ssaoEnabled |-> FALSE, ssaoIterations |-> 10,
               bloomIterations |-> 10, bloomMode |-> "DISABLED",
               bloomIntensity |-> 10, bloomHdrThreshold |-> 10,
               fogMode |-> "DISABLED", fogStart |-> 10, fogEnd |-> 500,
               fogDensity |-> 5, tonemapMode |-> "LINEAR",
               tonemapExposure |-> 10, tonemapWhite |-> 10,
               brightness |-> 10, contrast |-> 10, saturation |-> 10 ]
    /\ render = [mode |-> "AUTO_DETECT", blendMode |-> "ALPHA"]
    /\ camPos = 0
    /\ aDrawDeferred = << >>
    /\ aDrawForward = << >>
    /\ aDrawDeferredInst = << >>
    /\ aDrawForwardInst = << >>
    /\ rLights = [ nextID |-> 1, valid |-> {}, free |-> {},
                   elements |-> [id \in 1..MaxLights |-> NewLight("DIR")] ]
    /\ aLightBatch = << >>
    /\ glShadowMaps = {}
    /\ post = [targetTexIdx |-> 0, attached |-> 0]
    /\ stateResolution = [width |-> resWidth, height |-> resHeight]
    /\ LET st == r3d_framebuffers_load(
                     [fb |-> [ gBuffer |-> NoFramebuffer, litEnv |-> NoFramebuffer,
                               litObj |-> NoFramebuffer, scene |-> NoFramebuffer,
                               post |-> NoFramebuffer,
                               pingPongSSAO |-> NoFramebuffer,
                               pingPongBloom |-> NoFramebuffer,
                               customTarget |-> NoFramebuffer ],
                      objs |-> {}],
                     ZeroEnv, resWidth, resHeight)
       IN  framebuffer = st.fb /\ glFramebuffers = st.objs
    /\ LET st == r3d_shaders_load(r3d_textures_load(NoPrograms, ZeroEnv), ZeroEnv, {})
       IN  shader = st.shader /\ texture = st.texture /\ glObjects = st.gl
    /\ uLights = [i \in 1..R3D_SHADER_FORWARD_NUM_LIGHTS |-> FALSE]
    /\ glDepthMask = "on"
    /\ frame = [ began |-> FALSE, closed |-> FALSE, accepted |-> {}, nextCall |-> 1,
                 destroyed |-> {},
                 hist |-> [id \in 1..MaxLights |-> NewHist] ]
    /\ trace = NoTrace

(* -------------------------------- close ------------------------------- *)

\* r3d_registry_destroy: the storage of the registry is freed; no light
\* is valid any more.
r3d_registry_destroy(reg) == [reg EXCEPT !.nextID = 1, !.valid = {}, !.free = {}]

R3D_Close ==
    LET fb == r3d_framebuffers_unload([fb |-> framebuffer, objs |-> glFramebuffers])
        st == r3d_shaders_unload(r3d_textures_unload(Programs))
    IN  /\ framebuffer' = fb.fb
        /\ glFramebuffers' = fb.objs
        /\ shader' = st.shader
        /\ texture' = st.texture
        /\ glObjects' = st.gl
        /\ aDrawForward' = << >>
        /\ aDrawDeferred' = << >>
        /\ aDrawForwardInst' = << >>
        /\ aDrawDeferredInst' = << >>
        /\ rLights' = r3d_registry_destroy(rLights)
        /\ aLightBatch' = << >>
        /\ frame' = [frame EXCEPT !.closed = TRUE]
        /\ trace' = NoTrace
        /\ UNCHANGED << flags, env, render, camPos, glShadowMaps, post, stateResolution,
                        uLights, glDepthMask >>

(* ---------------------------- specifications -------------------------- *)

\* A material with a translucent albedo colour and no texture.
TranslucentMaterial == [alpha |-> 128, texture |-> [id |-> 0, alphaFormat |-> FALSE]]

\* Room for n more submissions within a bound.
Room(n, max) == frame.nextCall + n - 1 <= max

\* Classification: every render mode, blend mode and material.
InitClassify == R3D_Init(4, 2, {})

NextClassify ==
    \/ R3D_Begin(0)
    \/ \E mode \in RenderModes : R3D_ApplyRenderMode(mode)
    \/ \E mode \in BlendModes : R3D_ApplyBlendMode(mode)
    \/ \E material \in Materials : Room(1, MaxClassified) /\ R3D_DrawMesh(material, 0)
    \/ \E material \in Materials : Room(1, MaxClassified) /\ R3D_DrawSpritePro(material, 0)
    \/ \E material \in Materials :
          Room(1, MaxClassified) /\ R3D_DrawMeshInstancedPro(material, 0, TRUE, 1)

SpecClassify == InitClassify /\ [][NextClassify]_vars

\* The frame bracket: submissions of every kind on both paths, over frames.
InitDraw == R3D_Init(4, 2, {})

DrawMaterials == {DefaultMaterial, TranslucentMaterial}

NextDraw ==
    \/ R3D_Begin(0)
    \/ \E mode \in RenderModes : R3D_ApplyRenderMode(mode)
    \/ \E material \in DrawMaterials : Room(1, MaxSubmit) /\ R3D_DrawMesh(material, 0)
    \/ Room(1, MaxSubmit) /\ R3D_DrawSpritePro(TranslucentMaterial, 0)
    \/ \E has \in BOOLEAN, count \in {0, 1} :
          Room(1, MaxSubmit) /\ R3D_DrawMeshInstancedPro(DefaultMaterial, 0, has, count)
    \/ \E n \in 0..MaxMeshes : \E materials \in [1..n -> DrawMaterials] :
          Room(n, MaxSubmit) /\ R3D_DrawModelEx(materials, 0)
    \/ R3D_End(16, 4, 2)

SpecDraw == InitDraw /\ [][NextDraw]_vars

\* The pass sequence of R3D_End under every flag and environment setting.
InitPass == \E fl \in SUBSET Flags : R3D_Init(4, 2, fl)

NextPass ==
    \/ R3D_Begin(0)
    \/ \E fl \in {{"FXAA"}, {"DEPTH_PREPASS"}} : R3D_SetState(fl)
    \/ R3D_ClearState({"DEPTH_PREPASS"})
    \/ \E on \in BOOLEAN : R3D_SetSSAO(on)
    \/ \E mode \in BloomModes : R3D_SetBloom(mode)
    \/ \E mode \in FogModes : R3D_SetFogMode(mode)
    \/ \E mode \in TonemapModes : R3D_SetTonemapMode(mode)
    \/ R3D_ApplyBlendMode("ADDITIVE")
    \/ Room(1, MaxPassDraws) /\ R3D_DrawMesh(DefaultMaterial, 0)
    \/ Room(1, MaxPassDraws) /\ R3D_DrawMeshInstancedPro(DefaultMaterial, 0, TRUE, 1)
    \/ R3D_End(16, 4, 2)

SpecPass == InitPass /\ [][NextPass]_vars

\* The shadow update policy of a light over frames: the first light
\* created, a directional or a spot light, on screen (position 0) or off
\* screen (position 9), with the default period or a period of 100 ms.
InitShadow == R3D_Init(4, 2, {})

NextShadow ==
    \/ \E type \in {"DIR", "SPOT"} : rLights.nextID = 1 /\ R3D_CreateLight(type)
    \/ \E id \in LiveLights, active \in BOOLEAN : R3D_SetLightActive(id, active)
    \/ \E id \in LiveLights : R3D_ToggleLight(id)
    \/ \E id \in LiveLights, position \in {0, 9} : R3D_SetLightPosition(id, position)
    \/ \E id \in LiveLights : R3D_EnableShadow(id, 0)
    \/ \E id \in LiveLights : R3D_DisableShadow(id, FALSE)
    \/ \E id \in LiveLights, mode \in UpdateModes : R3D_SetShadowUpdateMode(id, mode)
    \/ \E id \in LiveLights : R3D_SetShadowUpdateFrequency(id, 100)
    \/ \E id \in LiveLights : R3D_UpdateShadowMap(id)
    \/ R3D_End(16, 4, 2)

SpecShadow == InitShadow /\ [][NextShadow]_vars

\* The light registry and the shadow maps of its lights: lights are
\* created, destroyed and given or denied a shadow through every handle a
\* caller can hold; the other setters are called with handles of no live
\* light.
InitLights == R3D_Init(4, 2, {})

NextLights ==
    \/ \E type \in {"OMNI"} : R3D_CreateLight(type)
    \/ \E id \in Handles : R3D_DestroyLight(id)
    \/ \E id \in Handles, resolution \in {0, 512} : R3D_EnableShadow(id, resolution)
    \/ \E id \in Handles, destroyMap \in BOOLEAN : R3D_DisableShadow(id, destroyMap)
    \/ \E id \in Handles \ LiveLights : R3D_ToggleLight(id)
    \/ \E id \in Handles \ LiveLights, active \in BOOLEAN : R3D_SetLightActive(id, active)
    \/ \E id \in Handles \ LiveLights : R3D_SetLightPosition(id, 9)
    \/ \E id \in Handles \ LiveLights, mode \in UpdateModes :
          R3D_SetShadowUpdateMode(id, mode)
    \/ \E id \in Handles \ LiveLights : R3D_SetShadowUpdateFrequency(id, 100)
    \/ \E id \in Handles \ LiveLights : R3D_UpdateShadowMap(id)

SpecLights == InitLights /\ [][NextLights]_vars

\* Light batching: several lights of both rectangle kinds, created,
\* destroyed and switched on between frames seen from the origin or from afar.
NextBatch ==
    \/ R3D_Begin(9)
    \/ \E type \in {"DIR", "SPOT"} : R3D_CreateLight(type)
    \/ \E id \in LiveLights : R3D_DestroyLight(id)
    \/ \E id \in LiveLights : R3D_SetLightActive(id, TRUE)
    \/ R3D_End(33, 4, 2)

SpecBatch == InitLights /\ [][NextBatch]_vars

\* Sorting: frames of meshes at two distances, opaque and translucent, with
\* an instanced submission, seen from a camera at or beyond the meshes.
NextSort ==
    \/ \E position \in {0, 3} : R3D_Begin(position)
    \/ \E material \in DrawMaterials, pos \in {0, 2} :
          Room(1, MaxSorted) /\ R3D_DrawMesh(material, pos)
    \/ \E material \in DrawMaterials, pos \in {0, 2} :
          Room(1, MaxSorted) /\ R3D_DrawMeshInstancedPro(material, pos, TRUE, 1)
    \/ R3D_End(16, 4, 2)

SpecSort == InitLights /\ [][NextSort]_vars

\* Tonemapping: frames between changes of the three tonemap parameters and
\* of the two other post stages with a mode.
NextTonemap ==
    \/ R3D_Begin(0)
    \/ \E mode \in BloomModes : R3D_SetBloom(mode)
    \/ \E mode \in FogModes : R3D_SetFogMode(mode)
    \/ \E mode \in TonemapModes : R3D_SetTonemapMode(mode)
    \/ \E value \in {10, 20} : R3D_SetTonemapExposure(value)
    \/ \E value \in {10, 20} : R3D_SetTonemapWhite(value)
    \/ R3D_End(16, 4, 2)

SpecTonemap == InitLights /\ [][NextTonemap]_vars

\* Resolution: changes of the internal resolution, valid and invalid, to
\* even and odd sizes, between frames and changes of the two effects that
\* own a half-size framebuffer.
NextResolution ==
    \/ R3D_Begin(0)
    \/ R3D_End(16, 4, 2)
    \/ \E width \in {-1, 0, 2, 4, 5}, height \in {0, 2, 3} :
          R3D_UpdateResolution(width, height)
    \/ \E on \in BOOLEAN : R3D_SetSSAO(on)
    \/ \E mode \in BloomModes : R3D_SetBloom(mode)

SpecResolution == InitLights /\ [][NextResolution]_vars

\* Parameters: the operations that take a size or a count, called with
\* valid and invalid arguments, from an initialisation that was given a
\* valid or an invalid width.
InitParams == \E resWidth \in {0, 4} : R3D_Init(resWidth, 2, {})

NextParams ==
    \/ R3D_Begin(0)
    \/ \E width \in {-1, 0, 2}, height \in {0, 2} : R3D_UpdateResolution(width, height)
    \/ rLights.nextID = 1 /\ R3D_CreateLight("OMNI")
    \/ \E id \in LiveLights, shadowResolution \in {-1, 0, 512} :
          R3D_EnableShadow(id, shadowResolution)
    \/ \E has \in BOOLEAN, count \in {-1, 0, 1} :
          Room(1, MaxPassDraws)
            /\ R3D_DrawMeshInstancedPro(DefaultMaterial, 0, has, count)

SpecParams == InitParams /\ [][NextParams]_vars

\* Final blit: frames blitted to windows and custom targets narrower and
\* wider than the internal resolution, with and without the aspect flag.
InitBlit == \E fl \in {{}, {"ASPECT_KEEP"}} : R3D_Init(4, 2, fl)

NextBlit ==
    \/ R3D_Begin(0)
    \/ R3D_SetState({"ASPECT_KEEP"})
    \/ R3D_ClearState({"ASPECT_KEEP"})
    \/ \E width \in {2, 4}, height \in {2, 3} : R3D_UpdateResolution(width, height)
    \/ \E target \in { NoFramebuffer,
                        [id |-> 20, width |-> 2, height |-> 4],
                        [id |-> 21, width |-> 6, height |-> 2] } :
          R3D_SetRenderTarget(target)
    \/ \E screenWidth \in {2, 4, 8}, screenHeight \in {2, 4} :
          R3D_End(16, screenWidth, screenHeight)

SpecBlit == InitBlit /\ [][NextBlit]_vars

\* Environment: every parameter that has a setter and a getter.
FloatSetters ==
    { "bloomIntensity", "bloomHdrThreshold", "fogStart", "fogEnd", "fogDensity",
      "brightness", "contrast", "saturation" }

NextEnv ==
    \/ \E mode \in BloomModes : R3D_SetBloom(mode)
    \/ \E mode \in FogModes : R3D_SetFogMode(mode)
    \/ \E mode \in TonemapModes : R3D_SetTonemapMode(mode)
    \/ \E value \in {10, 20} : R3D_SetTonemapExposure(value)
    \/ \E value \in {10, 20} : R3D_SetTonemapWhite(value)
    \/ \E field \in FloatSetters, value \in {10, 20} : R3D_SetFloat(field, value)

SpecEnv == InitLights /\ [][NextEnv]_vars

\* Shutdown: the renderer is closed after flags, effects, resolution
\* changes and a light with a shadow map; nothing is called after R3D_Close.
NextClose ==
    \/ ~frame.closed /\ R3D_SetState({"FXAA"})
    \/ ~frame.closed /\ \E mode \in BloomModes : R3D_SetBloom(mode)
    \/ ~frame.closed /\ \E width \in {2, 4}, height \in {2, 3} :
          R3D_UpdateResolution(width, height)
    \/ ~frame.closed /\ rLights.nextID = 1 /\ R3D_CreateLight("OMNI")
    \/ ~frame.closed /\ \E id \in LiveLights : R3D_EnableShadow(id, 0)
    \/ ~frame.closed /\ \E id \in LiveLights : R3D_DestroyLight(id)
    \/ ~frame.closed /\ R3D_Close

SpecClose == InitLights /\ [][NextClose]_vars

(* ------------------------- properties: frame end ---------------------- *)

Position(pass) == CHOOSE i \in 1..Len(PassOrder) : PassOrder[i] = pass

OncePerEnd == {"gbuffer", "background", "post_init", "adjustment", "final_blit", "reset"}

\* C1: the passes an R3D_End executes are passes of the fixed sequence, run
\* in the order of that sequence (so none runs twice), and the G-buffer,
\* background, post init, colour adjustment, final blit and state reset
\* passes each run in every End.
C1_PassOrder ==
    trace.valid =>
        /\ \A i \in 1..Len(trace.passes) : trace.passes[i] \in Range(PassOrder)
        /\ \A i, j \in 1..Len(trace.passes) :
              i < j => Position(trace.passes[i]) < Position(trace.passes[j])
        /\ OncePerEnd \subseteq Range(trace.passes)

\* An End in which every pass of the sequence ran.
C1_Witness == trace.valid /\ Len(trace.passes) = Len(PassOrder)

(* ----------------------- properties: classification ------------------- *)

\* The records a step appends to a bin.
Appended(old, new) ==
    IF Len(new) > Len(old) THEN { new[i] : i \in Len(old) + 1 .. Len(new) } ELSE {}

NewDeferred ==
    Appended(aDrawDeferred, aDrawDeferred')
        \cup Appended(aDrawDeferredInst, aDrawDeferredInst')

NewForward ==
    Appended(aDrawForward, aDrawForward') \cup Appended(aDrawForwardInst, aDrawForwardInst')

\* The path the claim as stated gives a submission: under alpha blend the
\* texture's pixel format alone can send it forward.
StatedPath(material) ==
    IF render.mode # "AUTO_DETECT" THEN render.mode
    ELSE IF render.blendMode = "OPAQUE" THEN "DEFERRED"
    ELSE IF render.blendMode \in {"ADDITIVE", "MULTIPLY"} THEN "FORWARD"
    ELSE IF material.alpha < 255 \/ material.texture.alphaFormat THEN "FORWARD"
    ELSE "DEFERRED"

\* The path of the amended claim: the pixel format counts only for a
\* texture that is neither absent (id 0) nor raylib's default texture.
AmendedPath(material) ==
    IF render.mode # "AUTO_DETECT" THEN render.mode
    ELSE IF render.blendMode = "OPAQUE" THEN "DEFERRED"
    ELSE IF render.blendMode \in {"ADDITIVE", "MULTIPLY"} THEN "FORWARD"
    ELSE IF \/ material.alpha < 255
            \/ /\ material.texture.id \notin {0, TextureIdDefault}
               /\ material.texture.alphaFormat
         THEN "FORWARD"
    ELSE "DEFERRED"

\* C2 as stated: every submitted record lands in a bin of the path given by
\* the override, else by the blend mode, and under alpha blend forward
\* exactly when the albedo alpha is below 255 or the albedo texture's pixel
\* format carries alpha.
C2_Stated ==
    [][ /\ \A r \in NewDeferred : StatedPath(r.material) = "DEFERRED"
        /\ \A r \in NewForward : StatedPath(r.material) = "FORWARD" ]_vars

\* C2 amended: as stated, except that under alpha blend the pixel format
\* sends a record forward only when the albedo texture is a texture other
\* than the absent texture (id 0) and raylib's default texture.
C2_Classification ==
    [][ /\ \A r \in NewDeferred : AmendedPath(r.material) = "DEFERRED"
        /\ \A r \in NewForward : AmendedPath(r.material) = "FORWARD" ]_vars

\* An auto-detected submission with the default material under alpha blend
\* has landed in the deferred bin.
C2_Witness ==
    /\ render = [mode |-> "AUTO_DETECT", blendMode |-> "ALPHA"]
    /\ \E i \in 1..Len(aDrawDeferred) : aDrawDeferred[i].material = DefaultMaterial

(* ------------------------ properties: frame bracket ------------------- *)

AllBins == aDrawDeferred \o aDrawForward \o aDrawDeferredInst \o aDrawForwardInst

\* The records the last End rasterised.
Rendered == Range(trace.gbuffer) \cup Range(trace.forward)

\* C3: between a Begin and the following End the four bins together hold
\* one record per submission accepted since that Begin, each once; and the
\* records an End renders are submissions accepted since the latest Begin.
C3_OneFrame ==
    /\ frame.began =>
          /\ Ids(AllBins) = frame.accepted
          /\ Len(AllBins) = Cardinality(frame.accepted)
    /\ trace.valid => Rendered \subseteq frame.accepted

\* An End has rendered a frame's records while a record submitted before
\* that frame's Begin was left out.
C3_Witness ==
    /\ trace.valid
    /\ frame.nextCall > 2
    /\ Rendered # {}
    /\ 1 \notin Rendered

(* ------------------------ properties: post ping-pong ------------------ *)

\* C4: in every End the post chain starts with the init copy of the scene
\* colour; each later stage reads the texture the stage before it wrote and
\* writes the other one; the index is flipped once per stage; and the final
\* blit reads the texture the last stage wrote.
C4_PingPong ==
    trace.valid =>
        LET log == trace.postLog
        IN  /\ Len(log) >= 1
            /\ log[1].stage = "post_init"
            /\ log[1].read = SceneColor
            /\ \A i \in 2..Len(log) :
                  /\ log[i].read = log[i - 1].write
                  /\ log[i].write = 1 - log[i].read
                  /\ log[i].read # log[i].write
            /\ trace.blit = log[Len(log)].write
            /\ post.targetTexIdx = 1 - log[Len(log)].write

\* An End that started on texture 1 and ran all five stages after the copy.
C4_Witness ==
    /\ trace.valid
    /\ Len(trace.postLog) = 6
    /\ trace.postLog[1].write = 1

(* ------------------------- properties: shadow maps -------------------- *)

\* The lights whose shadow map the last End rendered.
RenderedLights == { trace.shadows[i].id : i \in 1..Len(trace.shadows) }

ShouldUpdate(id) == Light(id).shadow.updateConf.shoudlUpdate

\* C5: an End renders the shadow maps of exactly the lights that are in
\* its batch, have their shadow enabled and have the should-update flag set
\* after the policy evaluation of that End; a rendered light's flag is
\* clear after the End; and the flag of a live light goes from set to clear
\* only in an End that renders that light's map.
C5_RenderedIffPending ==
    /\ [](trace.valid =>
            /\ RenderedLights = Ids(aLightBatch) \cap trace.shadowOn \cap trace.pending
            /\ \A id \in RenderedLights : ~ShouldUpdate(id))
    /\ [][ \A id \in LiveLights :
              (ShouldUpdate(id) /\ id \in LiveLights' /\ ~ShouldUpdate(id)')
                  => (trace'.valid /\ id \in RenderedLights') ]_vars

\* An End has rendered a map whose flag the policy set in that same End.
C5_Witness ==
    /\ trace.valid
    /\ \E i \in 1..Len(trace.shadows) : trace.shadows[i].why \subseteq UpdateModes
                                        /\ trace.shadows[i].why # {}

\* C6: when a light stayed enabled, batched, shadow-enabled and in interval
\* mode, with no light operation on it, from one render of its map to the
\* next, the frame time accumulated between the two renders is at least the
\* period; and with a period of 100 ms the map is rendered at most twice
\* in the first 5 frames of 16 ms after the last operation on the light.
C6_IntervalPeriod ==
    /\ trace.valid =>
          \A i \in 1..Len(trace.shadows) :
              (trace.shadows[i].mode = "INTERVAL" /\ trace.shadows[i].gap >= 0)
                  => trace.shadows[i].gap >= trace.shadows[i].frequencyMs
    /\ \A id \in LiveLights :
          (/\ Light(id).shadow.updateConf.mode = "INTERVAL"
           /\ Light(id).shadow.updateConf.frequencyMs = 100
           /\ frame.hist[id].frames >= 0)
              => frame.hist[id].renders <= 2

\* A map with a period of 100 ms has been rendered again after frames
\* accumulating more than 100 ms.
C6_Witness ==
    /\ trace.valid
    /\ \E i \in 1..Len(trace.shadows) :
          /\ trace.shadows[i].mode = "INTERVAL"
          /\ trace.shadows[i].frequencyMs = 100
          /\ trace.shadows[i].gap >= 100

\* C7 as stated: the map of a light in manual mode is rendered only if
\* R3D_UpdateShadowMap was called for the light since the previous render.
C7_Stated ==
    trace.valid =>
        \A i \in 1..Len(trace.shadows) :
            trace.shadows[i].mode = "MANUAL" => "update" \in trace.shadows[i].why

\* C7 amended: the map of a light in manual mode is rendered only if,
\* since the previous render, the flag was set by the creation of the
\* light, by R3D_UpdateShadowMap, by turning the light on with its shadow
\* enabled, or by the interval or continuous policy before the switch to
\* manual; never by the policy in manual mode or by any other operation.
C7_ManualCauses ==
    trace.valid =>
        \A i \in 1..Len(trace.shadows) :
            trace.shadows[i].mode = "MANUAL" =>
                /\ trace.shadows[i].why # {}
                /\ trace.shadows[i].why \subseteq
                       {"create", "update", "activate", "INTERVAL", "CONTINUOUS"}

\* A map in manual mode has been rendered without any R3D_UpdateShadowMap.
C7_Witness ==
    /\ trace.valid
    /\ \E i \in 1..Len(trace.shadows) :
          /\ trace.shadows[i].mode = "MANUAL"
          /\ "update" \notin trace.shadows[i].why

(* ------------------------ properties: light registry ------------------ *)

Map(id) == Light(id).shadow.map

\* C8: every live light with its shadow enabled has a shadow map, which is
\* a live framebuffer; a light just created has neither shadow nor map;
\* R3D_DisableShadow(h, true) leaves shadow off and no map,
\* R3D_DisableShadow(h, false) leaves shadow off and the map as it was; and
\* R3D_EnableShadow on a light with a map leaves the map as it was unless
\* the resolution asked for is positive and differs from the map's.
C8_ShadowHasMap ==
    /\ [](\A h \in LiveLights :
            R3D_IsShadowEnabled(h) =>
                (R3D_HasShadowMap(h) /\ Map(h).id \in glShadowMaps))
    /\ [][ \A h \in LiveLights' \ LiveLights :
              ~R3D_IsShadowEnabled(h)' /\ ~R3D_HasShadowMap(h)' ]_vars
    /\ [][ \A h \in LiveLights :
              /\ R3D_DisableShadow(h, TRUE) =>
                    (~R3D_IsShadowEnabled(h)' /\ ~R3D_HasShadowMap(h)')
              /\ R3D_DisableShadow(h, FALSE) =>
                    (~R3D_IsShadowEnabled(h)' /\ Map(h)' = Map(h))
              /\ \A resolution \in {0, 512} :
                    (R3D_HasShadowMap(h) /\ R3D_EnableShadow(h, resolution)) =>
                        \/ Map(h)' = Map(h)
                        \/ resolution > 0 /\ resolution # Map(h).resolution ]_vars

\* A light keeps the map of 512 it was given while its shadow is enabled,
\* and another live light has its shadow off with its map retained.
C8_Witness ==
    \E h, g \in LiveLights :
        /\ R3D_IsShadowEnabled(h) /\ Map(h).resolution = 512
        /\ ~R3D_IsShadowEnabled(g) /\ R3D_HasShadowMap(g)

\* C9: a handle that R3D_CreateLight makes valid was not valid before the
\* call and is not the handle of a light destroyed earlier.
C9_FreshHandle ==
    [][ \A h \in rLights'.valid \ rLights.valid : h \notin frame.destroyed ]_vars

\* The handles that designate no live light.
Invalid == { h \in Handles : h \notin rLights.valid }

\* C10: through a handle of no live light every getter returns its neutral
\* value and R3D_IsLightExist returns false; a call of any setter,
\* R3D_EnableShadow, R3D_DisableShadow or R3D_DestroyLight with such a
\* handle leaves the registry, the lights and the shadow maps as they were;
\* and R3D_DestroyLight of a live handle makes R3D_IsLightExist false.
C10_InvalidHandle ==
    /\ [](\A h \in Invalid :
            /\ ~R3D_IsLightExist(h)
            /\ R3D_GetLightType(h) = 0
            /\ ~R3D_IsLightActive(h)
            /\ R3D_GetLightPosition(h) = 0
            /\ ~R3D_IsShadowEnabled(h)
            /\ ~R3D_HasShadowMap(h)
            /\ R3D_GetShadowUpdateMode(h) = 0
            /\ R3D_GetShadowUpdateFrequency(h) = 0)
    /\ [][ \A h \in Invalid :
              (\/ R3D_DestroyLight(h)
               \/ \E resolution \in {0, 512} : R3D_EnableShadow(h, resolution)
               \/ \E destroyMap \in BOOLEAN : R3D_DisableShadow(h, destroyMap)
               \/ R3D_ToggleLight(h)
               \/ \E active \in BOOLEAN : R3D_SetLightActive(h, active)
               \/ R3D_SetLightPosition(h, 9)
               \/ \E mode \in UpdateModes : R3D_SetShadowUpdateMode(h, mode)
               \/ R3D_SetShadowUpdateFrequency(h, 100)
               \/ R3D_UpdateShadowMap(h))
                  => UNCHANGED << rLights, glShadowMaps >> ]_vars
    /\ [][ \A h \in LiveLights : R3D_DestroyLight(h) => ~R3D_IsLightExist(h)' ]_vars

\* A destroyed handle designates no light while its slot still holds the
\* destroyed light with its shadow enabled.
C10_Witness ==
    \E h \in frame.destroyed :
        /\ h \in Invalid
        /\ rLights.elements[h].shadow.enabled
        /\ ~R3D_IsShadowEnabled(h)

(* -------------------------- C11, C12: light batch --------------------- *)

\* The viewport rectangle.
Viewport == [x |-> 0, y |-> 0, width |-> stateResolution.width, height |-> stateResolution.height]

\* The lights that belong in the batch, from the state of a call of R3D_End.
Batchable == { id \in LiveLights :
                 Light(id).enabled /\ CheckCollisionRecs(LightRect(Light(id)), Viewport) }

\* C11: the R3D_End step leaves in the light batch exactly the live,
\* enabled lights whose screen rectangle intersects the viewport, as they
\* are when R3D_End is called, each once and in ascending handle order;
\* nothing of the previous frame's batch survives.
C11_BatchContents ==
    [][trace'.valid =>
          /\ Range(SeqIds(aLightBatch')) = Batchable
          /\ \A i, j \in 1..Len(aLightBatch') :
                 i < j => aLightBatch'[i].id < aLightBatch'[j].id]_vars

\* Two lights batched in handle order although handle 1 was created last,
\* while the previous frame's batch held another membership.
C11_Witness ==
    /\ trace.valid
    /\ SeqIds(aLightBatch) = << 1, 2 >>
    /\ 1 \in frame.destroyed
    /\ \E id \in LiveLights : Light(id).type = "SPOT"

\* C12: after R3D_End every live, enabled directional light is in the
\* batch with the full viewport as its rectangle, whatever the camera
\* position of the frame.
C12_DirectionalFull ==
    trace.valid =>
        \A id \in LiveLights :
            Light(id).type = "DIR" /\ Light(id).enabled =>
                \E i \in 1..Len(aLightBatch) :
                    aLightBatch[i] = [id |-> id, dstRect |-> Viewport]

\* A batched directional light in a frame whose camera puts a projected
\* footprint at the light's position off screen.
C12_Witness ==
    /\ trace.valid
    /\ camPos = 9
    /\ \E id \in LiveLights :
          /\ Light(id).type = "DIR" /\ Light(id).enabled
          /\ Light(id).position = 0
          /\ id \in Range(SeqIds(aLightBatch))

(* ---------------------------- C13, C14: sorting ----------------------- *)

\* s is a rearrangement of t: the same records, each as often.
IsPermutation(s, t) ==
    /\ Len(s) = Len(t)
    /\ \E p \in Perms(Len(t)) : s = Reorder(t, p)

\* The squared distance of a record from the camera position of R3D_Begin.
Dist(call) == Vector3DistanceSqr(camPos, call.pos)

NonDecreasing(s) == \A i, j \in 1..Len(s) : i < j => Dist(s[i]) <= Dist(s[j])

NonIncreasing(s) == \A i, j \in 1..Len(s) : i < j => Dist(s[i]) >= Dist(s[j])

C14_Idempotent ==
    [][trace'.valid /\ NonDecreasing(aDrawDeferred) =>
          aDrawDeferred' = aDrawDeferred]_vars

(* ------------------------------ C15: tonemap -------------------------- *)

\* C15: an R3D_End runs the tonemap stage exactly when the tonemap mode,
\* the exposure or the white point differs from its default (linear, 1.0,
\* 1.0).
C15_TonemapIff ==
    trace.valid =>
        ("tonemap" \in Range(trace.passes)
            <=> (\/ env.tonemapMode # "LINEAR"
                 \/ env.tonemapExposure # 10
                 \/ env.tonemapWhite # 10))

(* ------------------------ C20: setters and getters -------------------- *)

\* A step that changes no parameter of the environment but the named one,
\* and nothing of the renderer's other state.
OnlyEnv(field) ==
    /\ \A other \in DOMAIN env \ {field} : env'[other] = env[other]
    /\ UNCHANGED << flags, programVars, envRest >>

\* C20: each setter of an environment parameter leaves its getter
\* returning the value set and changes no other parameter: bloom mode,
\* intensity and HDR threshold, fog mode, start, end and density, tonemap
\* mode, exposure and white point, brightness, contrast and saturation.
C20_SetGet ==
    [][ /\ \A mode \in BloomModes :
             R3D_SetBloom(mode) => R3D_Get'.bloomMode = mode /\ OnlyEnv("bloomMode")
        /\ \A mode \in FogModes :
             R3D_SetFogMode(mode) => R3D_Get'.fogMode = mode /\ OnlyEnv("fogMode")
        /\ \A mode \in TonemapModes :
             R3D_SetTonemapMode(mode) =>
                 R3D_Get'.tonemapMode = mode /\ OnlyEnv("tonemapMode")
        /\ \A value \in {5, 10, 20, 500} :
             /\ R3D_SetTonemapExposure(value) =>
                    R3D_Get'.tonemapExposure = value /\ OnlyEnv("tonemapExposure")
             /\ R3D_SetTonemapWhite(value) =>
                    R3D_Get'.tonemapWhite = value /\ OnlyEnv("tonemapWhite")
             /\ \A field \in FloatSetters :
                    R3D_SetFloat(field, value) =>
                        R3D_Get'[field] = value /\ OnlyEnv(field) ]_vars

(* ---------------------------- C16: resolution ------------------------- *)

FullSize == {"gBuffer", "litEnv", "litObj", "scene", "post"}

HalfSize == {"pingPongSSAO", "pingPongBloom"}

\* The resolution-dependent framebuffers that are loaded.
Loaded == { f \in FullSize \cup HalfSize : framebuffer[f].id # 0 }

\* C16: every loaded resolution-dependent framebuffer has the size of the
\* resolution R3D_GetResolution returns, halved for the SSAO and bloom
\* ping-pong framebuffers, and the live framebuffer objects are exactly
\* the loaded ones: a change of resolution leaves none of the objects of
\* the old size behind.
C16_FramebufferSizes ==
    /\ \A f \in Loaded \cap FullSize :
          /\ framebuffer[f].width = R3D_GetResolution.width
          /\ framebuffer[f].height = R3D_GetResolution.height
    /\ \A f \in Loaded \cap HalfSize :
          /\ framebuffer[f].width = CDiv(R3D_GetResolution.width, 2)
          /\ framebuffer[f].height = CDiv(R3D_GetResolution.height, 2)
    /\ FullSize \subseteq Loaded
    /\ glFramebuffers = { framebuffer[f] : f \in Loaded }
    /\ \A f, g \in Loaded : f # g => framebuffer[f].id # framebuffer[g].id

\* After a change to an odd resolution both ping-pong framebuffers are
\* loaded at the truncated half size.
C16_Witness ==
    /\ stateResolution = [width |-> 5, height |-> 3]
    /\ Loaded = FullSize \cup HalfSize
    /\ framebuffer.pingPongBloom.width = 2
    /\ framebuffer.pingPongSSAO.height = 1

(* ------------------------- C17: invalid parameters -------------------- *)

\* The renderer's state, without the history variables.
Renderer ==
    << flags, env, render, camPos, binVars, rLights, aLightBatch, glShadowMaps,
       post, deviceVars, gpuVars >>

\* C17: a call with an invalid parameter changes nothing of the renderer's
\* state (a resolution update with a non-positive size, a shadow enabled
\* with a negative resolution, an instanced draw with a non-positive
\* count or without transforms), and in every state, the one R3D_Init
\* leaves included, the logical resolution and every shadow-map
\* resolution are positive and every instanced record has a count of at
\* least 1.
C17_InvalidIsNoOp ==
    /\ [](/\ stateResolution.width > 0 /\ stateResolution.height > 0
          /\ \A id \in LiveLights : Map(id).id # 0 => Map(id).resolution > 0
          /\ \A call \in Range(aDrawDeferredInst) \cup Range(aDrawForwardInst) :
                call.count >= 1)
    /\ [][ /\ \A width \in {-1, 0, 2}, height \in {0, 2} :
                 (width <= 0 \/ height <= 0) /\ R3D_UpdateResolution(width, height)
                     => UNCHANGED Renderer
           /\ \A id \in LiveLights :
                 R3D_EnableShadow(id, -1) => UNCHANGED Renderer
           /\ \A has \in BOOLEAN, count \in {-1, 0, 1} :
                 (count <= 0 \/ ~has)
                   /\ R3D_DrawMeshInstancedPro(DefaultMaterial, 0, has, count)
                     => UNCHANGED Renderer ]_vars

(* ------------------------ C18: GL state after End --------------------- *)

\* C18: when R3D_End returns, back-face culling and colour blending are
\* enabled, the depth test is disabled, and neither framebuffer binding
\* names a framebuffer of the renderer, whatever the flags, the
\* environment and the submissions of the frame.
C18_StateReset ==
    trace.valid =>
        /\ trace.gl.cullFace = "on"
        /\ trace.gl.colorBlend = "on"
        /\ trace.gl.depthTest = "off"
        /\ trace.gl.draw \notin FramebufferNames \cup glShadowMaps
        /\ trace.gl.read \notin FramebufferNames \cup glShadowMaps

\* A frame with a forward pass whose final blit left the G-buffer bound
\* for reading and blending disabled.
C18_Witness ==
    /\ trace.valid
    /\ "forward" \in Range(trace.passes)
    /\ trace.glBlit.read = framebuffer.gBuffer.id
    /\ trace.glBlit.read \in FramebufferNames
    /\ trace.glBlit.colorBlend = "off"

(* ------------------------------ C19: final blit ----------------------- *)

Abs(n) == IF n < 0 THEN -n ELSE n

Max(a, b) == IF a > b THEN a ELSE b

\* The rectangle lies inside a target of the given size.
Inside(r, target) ==
    /\ r.x >= 0 /\ r.y >= 0
    /\ r.x + r.width <= target.width
    /\ r.y + r.height <= target.height

\* The margins on opposite sides differ by one pixel at most.
Centred(r, target) ==
    /\ Abs(target.width - r.width - 2 * r.x) <= 1
    /\ Abs(target.height - r.height - 2 * r.y) <= 1

\* The rectangle has the ratio of the internal resolution, up to the
\* rounding of one of its sides to a whole pixel.
SameRatio(r) ==
    2 * Abs(r.width * stateResolution.height - r.height * stateResolution.width)
        <= Max(stateResolution.width, stateResolution.height)

\* C19: with the aspect flag the destination rectangle of the final blit
\* lies inside its target, window or custom target, is centred in it and
\* has the ratio of the internal resolution; without the flag it is the
\* whole target.
C19_BlitRectangle ==
    trace.valid =>
        IF "ASPECT_KEEP" \in flags
        THEN /\ Inside(trace.blitDst, trace.blitDst.target)
             /\ Centred(trace.blitDst, trace.blitDst.target)
             /\ SameRatio(trace.blitDst)
        ELSE /\ trace.blitDst.x = 0 /\ trace.blitDst.y = 0
             /\ trace.blitDst.width = trace.blitDst.target.width
             /\ trace.blitDst.height = trace.blitDst.target.height

(* -------------------------- C22: lighting passes ---------------------- *)

\* The place of a pass in the passes of the last End (0: it did not run).
Ran(pass) ==
    IF pass \in Range(trace.passes)
    THEN CHOOSE i \in 1..Len(trace.passes) : trace.passes[i] = pass
    ELSE 0

\* C22: every R3D_End runs the environment lighting pass, the direct
\* lighting pass and the scene composite pass, in that order, after the
\* G-buffer pass and the ambient-occlusion pass and before the background
\* pass, whatever the frame submitted.
C22_LightingAlways ==
    trace.valid =>
        /\ Ran("gbuffer") > 0
        /\ Ran("ssao") < Ran("lit_env")
        /\ Ran("gbuffer") < Ran("lit_env")
        /\ Ran("lit_env") < Ran("lit_obj")
        /\ Ran("lit_obj") < Ran("scene_deferred")
        /\ Ran("scene_deferred") < Ran("background")

(* ------------------------ C24: passes of a record --------------------- *)

\* How many times a pass rasterised the record id.
Times(raster, id) == Cardinality({ i \in 1..Len(raster) : raster[i] = id })

\* C24: in every R3D_End a record of a deferred bin is rasterised once by
\* the G-buffer pass and by no forward pass; a record of a forward bin is
\* rasterised once by the forward pass, once by the depth pre-pass exactly
\* when the depth-pre-pass flag is set, and never by the G-buffer pass; and
\* the forward passes run if and only if a forward bin holds a record.
C24_OwnPath ==
    trace.valid =>
        /\ \A id \in Ids(aDrawDeferred \o aDrawDeferredInst) :
              /\ Times(trace.gbuffer, id) = 1
              /\ Times(trace.forward, id) = 0
              /\ Times(trace.prepass, id) = 0
        /\ \A id \in Ids(aDrawForward \o aDrawForwardInst) :
              /\ Times(trace.forward, id) = 1
              /\ Times(trace.prepass, id) = IF "DEPTH_PREPASS" \in flags THEN 1 ELSE 0
              /\ Times(trace.gbuffer, id) = 0
        /\ "forward" \in Range(trace.passes)
              <=> Len(aDrawForward \o aDrawForwardInst) > 0
        /\ "forward_prepass" \in Range(trace.passes)
              <=> (Len(aDrawForward \o aDrawForwardInst) > 0 /\ "DEPTH_PREPASS" \in flags)

\* A frame with a record on each path and the depth pre-pass has ended.
C24_Witness ==
    /\ trace.valid
    /\ Len(aDrawDeferred \o aDrawDeferredInst) > 0
    /\ Len(aDrawForward \o aDrawForwardInst) > 0
    /\ Len(trace.prepass) > 0

(* ------------------------- C25: instanced bins ------------------------ *)

Increasing(ids) == \A i, j \in 1..Len(ids) : i < j => ids[i] < ids[j]

\* The records of a bin that a pass rasterised, in the order of the pass.
Rastered(raster, bin) == SelectSeq(raster, LAMBDA id : id \in Ids(bin))

\* C25: R3D_End leaves both instanced bins as they were, and its G-buffer
\* and forward passes rasterise the instanced records of their path in the
\* order of their submission since the last R3D_Begin (record ids grow
\* with each submission).
C25_InstancedOrder ==
    /\ [][ trace'.valid =>
              /\ aDrawDeferredInst' = aDrawDeferredInst
              /\ aDrawForwardInst' = aDrawForwardInst ]_vars
    /\ [](trace.valid =>
              /\ Rastered(trace.gbuffer, aDrawDeferredInst) = SeqIds(aDrawDeferredInst)
              /\ Rastered(trace.forward, aDrawForwardInst) = SeqIds(aDrawForwardInst)
              /\ Increasing(SeqIds(aDrawDeferredInst))
              /\ Increasing(SeqIds(aDrawForwardInst)))

\* A frame has ended whose two instanced records of one path were submitted
\* farther first, seen from a camera at the origin.
C25_Witness ==
    /\ trace.valid
    /\ camPos = 0
    /\ \E bin \in {aDrawDeferredInst, aDrawForwardInst} :
          Len(bin) = 2 /\ bin[1].pos = 2 /\ bin[2].pos = 0

(* ----------------------- C26: shadow map lifetime --------------------- *)

\* The shadow maps the live lights reference.
Referenced == { Map(h).id : h \in { l \in LiveLights : Map(l).id # 0 } }

\* C26: over creations, destructions and shadow switches of lights, the
\* allocated shadow maps are exactly the maps live lights reference, each
\* referenced by one light, so that a release is always of an allocated
\* map and happens once; R3D_DestroyLight and R3D_DisableShadow(h, true)
\* release the light's map, R3D_DisableShadow(h, true) on a light without
\* a map releases nothing, and an R3D_EnableShadow that changes the
\* resolution releases the old map and allocates the new one.
C26_MapLifetime ==
    /\ [](/\ glShadowMaps = Referenced
          /\ \A h1, h2 \in LiveLights :
                (h1 # h2 /\ Map(h1).id # 0) => Map(h1).id # Map(h2).id)
    /\ [][ \A h \in LiveLights :
              /\ (R3D_DestroyLight(h) \/ R3D_DisableShadow(h, TRUE)) =>
                    glShadowMaps' = glShadowMaps \ {Map(h).id}
              /\ (R3D_DisableShadow(h, TRUE) /\ Map(h).id = 0) =>
                    glShadowMaps' = glShadowMaps
              /\ \A resolution \in {0, 512} :
                    (/\ R3D_EnableShadow(h, resolution)
                     /\ Map(h).id # 0
                     /\ resolution > 0
                     /\ resolution # Map(h).resolution) =>
                        /\ Map(h)'.resolution = resolution
                        /\ Map(h)'.id \notin glShadowMaps \ {Map(h).id}
                        /\ glShadowMaps' = (glShadowMaps \ {Map(h).id}) \cup {Map(h)'.id} ]_vars

\* Two lights hold a map each, one of them recreated at 512, after a light
\* was destroyed.
C26_Witness ==
    /\ frame.destroyed # {}
    /\ \E h1, h2 \in LiveLights :
          /\ h1 # h2
          /\ Map(h1).id # 0 /\ Map(h1).resolution = 512
          /\ Map(h2).id # 0 /\ Map(h2).resolution = DefaultShadowResolution

(* ----------------------------- C21: shutdown -------------------------- *)

\* C21: after R3D_Close no framebuffer, default texture, shader program or
\* shadow map that the renderer created since R3D_Init is still live, and
\* none was released when it was not live: each was released exactly once.
C21_AllReleased ==
    frame.closed =>
        /\ glFramebuffers = {}
        /\ glObjects.textures = {}
        /\ glObjects.programs = {}
        /\ glShadowMaps = {}
        /\ ~glObjects.bad

\* C28: whenever R3D_End runs an optional pass (SSAO, bloom, fog, FXAA), the
\* program the pass enables and the framebuffer it binds are loaded, their
\* ids not zero.
C28_OptionalLoaded ==
    trace.valid =>
        \A i \in 1..Len(trace.uses) :
            trace.uses[i].program # 0 /\ trace.uses[i].fb # 0

\* Depth writing over frames: a directional light that casts a shadow,
\* submissions on both paths, with or without the depth pre-pass.
NextDepth ==
    \/ R3D_Begin(0)
    \/ rLights.nextID = 1 /\ R3D_CreateLight("DIR")
    \/ \E id \in LiveLights : R3D_SetLightActive(id, TRUE)
    \/ \E id \in LiveLights : R3D_EnableShadow(id, 0)
    \/ \E id \in LiveLights : R3D_SetShadowUpdateMode(id, "CONTINUOUS")
    \/ R3D_SetState({"DEPTH_PREPASS"})
    \/ \E material \in DrawMaterials : Room(1, MaxPassDraws) /\ R3D_DrawMesh(material, 0)
    \/ R3D_End(16, 4, 2)

SpecDepth == InitLights /\ [][NextDepth]_vars

\* The passes of the traced frame that write depth: the shadow pass when it
\* renders a map, the G-buffer pass, the depth pre-pass, and the forward
\* pass of a frame without a pre-pass.
DepthWriters ==
    {"gbuffer", "forward_prepass"}
    \cup (IF trace.shadows # << >> THEN {"shadow"} ELSE {})
    \cup (IF "forward_prepass" \notin Range(trace.passes) THEN {"forward"} ELSE {})

\* C29: in every frame, each pass that must write depth (the shadow pass
\* with its depth clear, the G-buffer pass, the forward depth pre-pass, the
\* forward pass when no pre-pass is used) runs with depth writing enabled,
\* whatever the previous R3D_End left behind.
C29_DepthWritesEnabled ==
    trace.valid =>
        \A i \in 1..Len(trace.depthMasks) :
            trace.depthMasks[i].pass \in DepthWriters
                => trace.depthMasks[i].depthMask = "on"

\* The blur passes under every iteration count from 0 on, with the default
\* of 10 iterations to begin with.
NextBlur ==
    \/ R3D_Begin(0)
    \/ \E on \in BOOLEAN : R3D_SetSSAO(on)
    \/ \E mode \in BloomModes : R3D_SetBloom(mode)
    \/ \E value \in 0..MaxIterations : R3D_SetSSAOIterations(value)
    \/ \E value \in 0..MaxIterations : R3D_SetBloomIterations(value)
    \/ Room(1, MaxPassDraws) /\ R3D_DrawMesh(DefaultMaterial, 0)
    \/ R3D_End(16, 4, 2)

SpecBlur == InitLights /\ [][NextBlur]_vars

\* Each iteration of the blur p samples what the one before it wrote (the
\* first one the blur's source) and writes another texture, one of the pair.
BlurChained(p) ==
    \A i \in 1..Len(p.log) :
        /\ p.log[i].read = IF i = 1 THEN p.source ELSE p.log[i - 1].write
        /\ p.log[i].write # p.log[i].read
        /\ p.log[i].write \in {Tex(0), Tex(1)}

\* The textures of the pair the pass p wrote in the frame, in order.
WrittenInFrame(p) == p.written \o [i \in 1..Len(p.log) |-> p.log[i].write]

\* The consumer of p samples the texture p wrote last in the frame.
SamplesLast(p) ==
    /\ WrittenInFrame(p) # << >>
    /\ p.sampled = WrittenInFrame(p)[Len(WrittenInFrame(p))]

\* C30: for every iteration count N >= 0, each blur iteration of the SSAO
\* and bloom passes reads what the previous one wrote (the raw SSAO output
\* or the bright buffer for the first) and writes the other texture, and
\* the consumer that follows (scene composite, bloom composite) reads the
\* texture written last in the same frame.
C30_BlurPingPong ==
    trace.valid =>
        /\ "ssao" \in Range(trace.passes) =>
              /\ BlurChained(trace.ssao)
              /\ "scene_deferred" \in Range(trace.passes) => SamplesLast(trace.ssao)
        /\ "bloom" \in Range(trace.passes) =>
              /\ BlurChained(trace.bloom)
              /\ SamplesLast(trace.bloom)

\* Forward lighting over frames: an omni light of the default range at the
\* origin, forward submissions inside (0) and outside (200) its range.
NextForward ==
    \/ R3D_Begin(0)
    \/ rLights.nextID = 1 /\ R3D_CreateLight("OMNI")
    \/ \E id \in LiveLights, active \in BOOLEAN : R3D_SetLightActive(id, active)
    \/ \E pos \in {0, 200} :
          Room(1, MaxPassDraws) /\ R3D_DrawMesh(TranslucentMaterial, pos)
    \/ R3D_End(16, 4, 2)

SpecForward == InitLights /\ [][NextForward]_vars

\* The light at index i of the batch reaches a draw call at pos: it is
\* directional or its range sphere contains pos.
Reaches(i, pos) ==
    LET light == rLights.elements[aLightBatch[i].id]
    IN  \/ light.type = "DIR"
        \/ (pos - light.position) * (pos - light.position)
               <= light.range * light.range

\* C23: for each non-instanced forward draw call, after its lights are
\* sent, shader light slot i is enabled if and only if the batch has a
\* light at index i (below 8) and that light is directional or its range
\* sphere contains the draw call's origin.
C23_SlotsEnabled ==
    trace.valid =>
        \A k \in 1..Len(trace.sent) :
            \A i \in 1..R3D_SHADER_FORWARD_NUM_LIGHTS :
                trace.sent[k].enabled[i]
                    <=> (i <= Len(aLightBatch) /\ Reaches(i, trace.sent[k].pos))

\* Shadow maps and the passes that sample them: a directional light whose
\* shadow is enabled, disabled and re-allocated at another resolution under
\* every update mode, with deferred submissions.
NextSample ==
    \/ R3D_Begin(0)
    \/ rLights.nextID = 1 /\ R3D_CreateLight("DIR")
    \/ \E id \in LiveLights : R3D_SetLightActive(id, TRUE)
    \/ \E id \in LiveLights, resolution \in {0, 512} : R3D_EnableShadow(id, resolution)
    \/ \E id \in LiveLights, destroyMap \in BOOLEAN : R3D_DisableShadow(id, destroyMap)
    \/ \E id \in LiveLights, mode \in UpdateModes : R3D_SetShadowUpdateMode(id, mode)
    \/ Room(1, MaxPassDraws) /\ R3D_DrawMesh(DefaultMaterial, 0)
    \/ R3D_End(16, 4, 2)

SpecSample == InitLights /\ [][NextSample]_vars

\* A lighting pass of the traced frame samples the light at index i of the
\* batch: the direct lighting pass, or a forward draw call the light reaches.
Sampled(i) ==
    \/ "lit_obj" \in Range(trace.passes)
    \/ /\ i <= R3D_SHADER_FORWARD_NUM_LIGHTS
       /\ \E k \in 1..Len(trace.sent) : Reaches(i, trace.sent[k].pos)

\* C27: whenever a batched light has its shadow enabled in the direct
\* lighting pass or the forward pass of an R3D_End, its current shadow map
\* was rendered by the shadow pass of that End or of an earlier End after
\* the map's allocation.
C27_SampledMapsDrawn ==
    trace.valid =>
        \A i \in 1..Len(aLightBatch) :
            (Sampled(i) /\ rLights.elements[aLightBatch[i].id].shadow.enabled)
                => frame.hist[aLightBatch[i].id].drawn

====
